---- MODULE Spec2Model ----
(***************************************************************************)
(* The APIcast logic reconciler (pkg/controller/apicast) as a state        *)
(* machine: the object store (the APIcast resource, its two user secrets,  *)
(* the deployment, the service, the ingress), one reconciler working on    *)
(* one APIcast resource, and the position of the running Reconcile pass.   *)
(* A pass is cut at its store calls: every action performs at most one     *)
(* call on the store and the in-memory code around it.                     *)
(***************************************************************************)
EXTENDS Integers, Sequences, FiniteSets, TLC

\* Bounds of the model.
MaxPasses == 3
MaxFaults == 1
MaxExternal == 2
MaxConvPasses == 4
MaxInspects == 2

\* ------------------------------------------------------------------------
\* Go pointers and optional fields: nil is None, a set pointer is Some(v).
None == <<>>
Some(v) == <<v>>
IsNil(o) == o = <<>>
Deref(o) == o[1]

SeqToSet(s) == {s[i] : i \in 1..Len(s)}

\* ------------------------------------------------------------------------
\* Constants of the program.
AdmPortalSecretResverAnnotation == "apicast.apps.3scale.net/admin-portal-secret-resource-version"
GatewayConfigurationSecretResverAnnotation == "apicast.apps.3scale.net/gateway-configuration-secret-resource-version"
AdminPortalURLAttributeName == "AdminPortalURL"
EmbeddedConfigurationSecretKey == "config.json"
defaultAPIcastReplicas == 1
DefaultImageVersion == "quay.io/3scale/apicast:nightly"

\* Names used by the scenarios.
CRName == "example"
AdmSecretName == "adm"
CfgSecretName == "cfg"
NewHost == "new.example.com"
OldHost == "old.example.com"

\* Errors. ErrNil is Go's nil error.
ErrNil == ""
ErrReferenceIncomplete == "Field 'Name' not specified"
ErrKeyMissing == "Required key not found in secret"
ErrURLParse == "url parse error"
ErrAccessToken == "Access Token required"
ErrNotFound == "NotFound"
ErrAlreadyExists == "AlreadyExists"
ErrConflict == "Conflict"
ErrIO == "IOError"
ErrAlreadyOwned == "AlreadyOwned"

\* ------------------------------------------------------------------------
\* net/url: the admin portal URLs of the scenarios and what url.Parse and
\* (*Userinfo).Username make of them.
URLWithToken == "https://token@admin.example.com"
URLNoUser == "https://admin.example.com"
URLEmptyUser == "https://:secret@admin.example.com"
URLBad == "%zz://admin"

urlParse(u) ==
  CASE u = URLWithToken -> [err |-> ErrNil, User |-> Some([username |-> "token"])]
    [] u = URLNoUser    -> [err |-> ErrNil, User |-> None]
    [] u = URLEmptyUser -> [err |-> ErrNil, User |-> Some([username |-> ""])]
    [] OTHER            -> [err |-> ErrURLParse, User |-> None]

\* (*Userinfo).Username is nil-safe: a nil receiver yields "".
Username(user) == IF IsNil(user) THEN "" ELSE Deref(user).username

\* k8sutils.SecretStringDataFromData: the secret's byte values as strings,
\* key by key.
SecretStringDataFromData(secret) == [k \in DOMAIN secret.Data |-> secret.Data[k]]

\* ------------------------------------------------------------------------
\* Owner references.
asOwner(a) ==
  [APIVersion |-> "apps.3scale.net/v1alpha1", Kind |-> "APIcast",
   Name |-> a.Name, UID |-> a.UID, Controller |-> TRUE]

OtherOwner ==
  [APIVersion |-> "apps.3scale.net/v1alpha1", Kind |-> "APIcast",
   Name |-> "other", UID |-> "uid-other", Controller |-> TRUE]

\* controllerutil.SetControllerReference's test for two references to the
\* same owner.
referSameObject(a, b) ==
  a.APIVersion = b.APIVersion /\ a.Kind = b.Kind /\ a.Name = b.Name

\* setOwnerReference that adds the reference next to another controller's.
setOwnerReferenceSharing(a, obj) ==
  LET ref == asOwner(a)
      refs == obj.OwnerReferences
      same == {i \in 1..Len(refs) : referSameObject(ref, refs[i])}
  IN IF same = {}
       THEN [obj |-> [obj EXCEPT !.OwnerReferences = Append(refs, ref)], err |-> ErrNil]
       ELSE [obj |-> [obj EXCEPT !.OwnerReferences =
                         [i \in 1..Len(refs) |-> IF i \in same THEN ref ELSE refs[i]]],
             err |-> ErrNil]

\* setOwnerReference: controllerutil.SetControllerReference(r.APIcastCR, obj).
\* A reference to the same owner is overwritten in place, another controller
\* reference is an error, otherwise the reference is appended.
setOwnerReference(a, obj) ==
  LET ref == asOwner(a)
      refs == obj.OwnerReferences
      same == {i \in 1..Len(refs) : referSameObject(ref, refs[i])}
      foreign == {i \in 1..Len(refs) : ~referSameObject(ref, refs[i]) /\ refs[i].Controller}
  IN IF foreign # {}
       THEN [obj |-> obj, err |-> ErrAlreadyOwned]
       ELSE IF same = {}
         THEN [obj |-> [obj EXCEPT !.OwnerReferences = Append(refs, ref)], err |-> ErrNil]
         ELSE [obj |-> [obj EXCEPT !.OwnerReferences =
                           [i \in 1..Len(refs) |-> IF i \in same THEN ref ELSE refs[i]]],
               err |-> ErrNil]

\* ensureOwnerReference reporting a change whenever the reference was set,
\* also when it was there before.
ensureOwnerReferenceAlwaysChanged(a, obj) ==
  LET set == setOwnerReference(a, obj)
  IN IF set.err # ErrNil
       THEN [obj |-> obj, changed |-> FALSE, err |-> set.err]
       ELSE [obj |-> set.obj, changed |-> TRUE, err |-> ErrNil]

ensureOwnerReference(a, obj) ==
  LET originalSize == Len(obj.OwnerReferences)
      set == setOwnerReference(a, obj)
      newSize == Len(set.obj.OwnerReferences)
  IN IF set.err # ErrNil
       THEN [obj |-> obj, changed |-> FALSE, err |-> set.err]
       ELSE [obj |-> set.obj, changed |-> originalSize # newSize, err |-> ErrNil]

\* ------------------------------------------------------------------------
\* The store client (controller-runtime client.Client). A call either fails
\* with an I/O error (fault), or answers by the state of the store. Update is
\* guarded by the resource version of the object it is given.
GetOutcome(stored, fault) ==
  IF fault THEN ErrIO ELSE IF IsNil(stored) THEN ErrNotFound ELSE ErrNil

CreateOutcome(stored, fault) ==
  IF fault THEN ErrIO ELSE IF ~IsNil(stored) THEN ErrAlreadyExists ELSE ErrNil

UpdateOutcome(stored, obj, fault) ==
  IF fault THEN ErrIO
  ELSE IF IsNil(stored) THEN ErrNotFound
  ELSE IF Deref(stored).ResourceVersion # obj.ResourceVersion THEN ErrConflict
  ELSE ErrNil

\* The object as the store keeps it after an accepted write.
Written(obj) == [obj EXCEPT !.ResourceVersion = @ + 1]

\* One entry of the pass's record of store calls. rv is the resource version
\* the store gave the object on an accepted write, 0 otherwise.
LogEntry(op, kind, name, res, rv) ==
  [op |-> op, kind |-> kind, name |-> name, res |-> res, rv |-> rv]

\* appsv1.DeploymentSpec.Replicas is a *int32. The store keeps the number;
\* an object in memory holds a pointer to a cell of its own: addr names the
\* object the cell belongs to, so two pointers are equal exactly when they
\* are both nil or point into the same object.
loadDeployment(stored) ==
  [stored EXCEPT !.Replicas = Some([addr |-> "existingDeployment", val |-> @])]

storeDeployment(d) ==
  [d EXCEPT !.Replicas = IF IsNil(@) THEN 1 ELSE Deref(@).val]

\* ------------------------------------------------------------------------
\* Secret resolution.
\* getAdminPortalCredentialsSecret without the access-token check.
getAdminPortalCredentialsSecretAnyURL(a, store, fault) ==
  LET ref == Deref(a.Spec.AdminPortalCredentialsRef)
  IN IF ref.Name = ""
       THEN [secret |-> None, err |-> ErrReferenceIncomplete, calls |-> <<>>]
       ELSE
         LET out == GetOutcome(store[ref.Name], fault)
             calls == <<LogEntry("Get", "Secret", ref.Name, out, 0)>>
         IN IF out # ErrNil
              THEN [secret |-> None, err |-> out, calls |-> calls]
              ELSE
                LET secret == Deref(store[ref.Name])
                    secretStringData == SecretStringDataFromData(secret)
                IN IF AdminPortalURLAttributeName \notin DOMAIN secretStringData
                     THEN [secret |-> None, err |-> ErrKeyMissing, calls |-> calls]
                     ELSE
                       LET parsedURL == urlParse(secretStringData[AdminPortalURLAttributeName])
                       IN IF parsedURL.err # ErrNil
                            THEN [secret |-> None, err |-> parsedURL.err, calls |-> calls]
                            ELSE [secret |-> Some(secret), err |-> ErrNil, calls |-> calls]

getAdminPortalCredentialsSecret(a, store, fault) ==
  LET ref == Deref(a.Spec.AdminPortalCredentialsRef)
  IN IF ref.Name = ""
       THEN [secret |-> None, err |-> ErrReferenceIncomplete, calls |-> <<>>]
       ELSE
         LET out == GetOutcome(store[ref.Name], fault)
             calls == <<LogEntry("Get", "Secret", ref.Name, out, 0)>>
         IN IF out # ErrNil
              THEN [secret |-> None, err |-> out, calls |-> calls]
              ELSE
                LET secret == Deref(store[ref.Name])
                    secretStringData == SecretStringDataFromData(secret)
                IN IF AdminPortalURLAttributeName \notin DOMAIN secretStringData
                     THEN [secret |-> None, err |-> ErrKeyMissing, calls |-> calls]
                     ELSE
                       LET parsedURL == urlParse(secretStringData[AdminPortalURLAttributeName])
                       IN IF parsedURL.err # ErrNil
                            THEN [secret |-> None, err |-> parsedURL.err, calls |-> calls]
                            ELSE IF Username(parsedURL.User) = ""
                              THEN [secret |-> None, err |-> ErrAccessToken, calls |-> calls]
                              ELSE [secret |-> Some(secret), err |-> ErrNil, calls |-> calls]

getGatewayEmbeddedConfigSecret(a, store, fault) ==
  LET ref == Deref(a.Spec.EmbeddedConfigurationSecretRef)
  IN IF ref.Name = ""
       THEN [secret |-> None, err |-> ErrReferenceIncomplete, calls |-> <<>>]
       ELSE
         LET out == GetOutcome(store[ref.Name], fault)
             calls == <<LogEntry("Get", "Secret", ref.Name, out, 0)>>
         IN IF out # ErrNil
              THEN [secret |-> None, err |-> out, calls |-> calls]
              ELSE
                LET secret == Deref(store[ref.Name])
                    secretStringData == SecretStringDataFromData(secret)
                IN IF EmbeddedConfigurationSecretKey \notin DOMAIN secretStringData
                     THEN [secret |-> None, err |-> ErrKeyMissing, calls |-> calls]
                     ELSE [secret |-> Some(secret), err |-> ErrNil, calls |-> calls]

\* ------------------------------------------------------------------------
\* Initialization of the resource.
\* applyInitialization that fills the default in without reporting it.
applyInitializationUnreported(a) ==
  IF IsNil(a.Spec.Replicas)
    THEN [cr |-> [a EXCEPT !.Spec.Replicas = Some(defaultAPIcastReplicas)],
          appliedInitialization |-> FALSE]
    ELSE [cr |-> a, appliedInitialization |-> FALSE]

\* applyInitialization that takes a replica count of 0 for an unset one.
applyInitializationZeroAsUnset(a) ==
  IF IsNil(a.Spec.Replicas) \/ a.Spec.Replicas = Some(0)
    THEN [cr |-> [a EXCEPT !.Spec.Replicas = Some(defaultAPIcastReplicas)],
          appliedInitialization |-> TRUE]
    ELSE [cr |-> a, appliedInitialization |-> FALSE]

applyInitialization(a) ==
  IF IsNil(a.Spec.Replicas)
    THEN [cr |-> [a EXCEPT !.Spec.Replicas = Some(defaultAPIcastReplicas)],
          appliedInitialization |-> TRUE]
    ELSE [cr |-> a, appliedInitialization |-> FALSE]

\* UserProvidedSecretResourceVersionAnnotations without the annotation of the
\* embedded configuration secret.
UserProvidedSecretResourceVersionAnnotationsAdminOnly(ups) ==
  LET keys == IF IsNil(ups.adminPortalCredentialsSecret) THEN {}
              ELSE {AdmPortalSecretResverAnnotation}
  IN [k \in keys |-> Deref(ups.adminPortalCredentialsSecret).ResourceVersion]

\* ------------------------------------------------------------------------
\* The desired state.
UserProvidedSecretResourceVersionAnnotations(ups) ==
  LET keys == (IF IsNil(ups.adminPortalCredentialsSecret) THEN {}
               ELSE {AdmPortalSecretResverAnnotation})
              \cup
              (IF IsNil(ups.gatewayEmbeddedConfigSecret) THEN {}
               ELSE {GatewayConfigurationSecretResverAnnotation})
  IN [k \in keys |->
        IF k = AdmPortalSecretResverAnnotation
          THEN Deref(ups.adminPortalCredentialsSecret).ResourceVersion
          ELSE Deref(ups.gatewayEmbeddedConfigSecret).ResourceVersion]

internalAPIcast(a, ups) ==
  LET apicastFullName == "apicast-" \o a.Name
  IN [DeploymentName |-> apicastFullName,
      ServiceName |-> apicastFullName,
      Replicas |-> Deref(a.Spec.Replicas),
      AppLabel |-> "apicast",
      AdditionalAnnotations |-> UserProvidedSecretResourceVersionAnnotations(ups),
      ServiceAccountName |-> IF IsNil(a.Spec.ServiceAccount) THEN "default"
                             ELSE Deref(a.Spec.ServiceAccount),
      Image |-> IF IsNil(a.Spec.Image) THEN DefaultImageVersion ELSE Deref(a.Spec.Image),
      ExposedHost |-> IF IsNil(a.Spec.ExposedHost) THEN [Host |-> "", TLS |-> <<>>]
                      ELSE [Host |-> Deref(a.Spec.ExposedHost).Host,
                            TLS |-> Deref(a.Spec.ExposedHost).TLS],
      OwnerReference |-> asOwner(a),
      AdminPortalCredentialsSecretName |->
        IF IsNil(ups.adminPortalCredentialsSecret) THEN None
        ELSE Some(Deref(ups.adminPortalCredentialsSecret).Name),
      GatewayConfigurationSecretName |->
        IF IsNil(ups.gatewayEmbeddedConfigSecret) THEN None
        ELSE Some(Deref(ups.gatewayEmbeddedConfigSecret).Name),
      LogLevel |-> a.Spec.LogLevel]

\* apicast.APIcast.Deployment: the deployment object of the desired state.
\* Optional settings become environment variables only when they are set;
\* the embedded configuration secret is mounted as a volume.
Deployment(apicast) ==
  [Name |-> apicast.DeploymentName,
   Replicas |-> Some([addr |-> "desiredDeployment", val |-> apicast.Replicas]),
   Image |-> apicast.Image,
   ServiceAccountName |-> apicast.ServiceAccountName,
   Env |-> (IF IsNil(apicast.AdminPortalCredentialsSecretName) THEN <<>>
            ELSE <<[Name |-> "THREESCALE_PORTAL_ENDPOINT",
                    Value |-> Deref(apicast.AdminPortalCredentialsSecretName)]>>)
           \o
           (IF IsNil(apicast.LogLevel) THEN <<>>
            ELSE <<[Name |-> "APICAST_LOG_LEVEL", Value |-> Deref(apicast.LogLevel)]>>),
   Annotations |-> apicast.AdditionalAnnotations,
   Volumes |-> IF IsNil(apicast.GatewayConfigurationSecretName) THEN <<>>
               ELSE <<[Name |-> "gateway-configuration",
                       Secret |-> Deref(apicast.GatewayConfigurationSecretName)]>>,
   VolumeMounts |-> IF IsNil(apicast.GatewayConfigurationSecretName) THEN <<>>
                    ELSE <<[Name |-> "gateway-configuration", MountPath |-> "/tmp/gateway-configuration"]>>,
   Labels |-> <<[Name |-> "app", Value |-> apicast.AppLabel]>>,
   OwnerReferences |-> <<apicast.OwnerReference>>,
   ResourceVersion |-> 0]

\* apicast.APIcast.Service
Service(apicast) ==
  [Name |-> apicast.ServiceName,
   Selector |-> apicast.DeploymentName,
   Ports |-> <<8080, 8090>>,
   OwnerReferences |-> <<apicast.OwnerReference>>,
   ResourceVersion |-> 0]

\* apicast.APIcast.Ingress: one rule, for the exposed host.
Ingress(apicast) ==
  [Name |-> apicast.ServiceName,
   Rules |-> <<[Host |-> apicast.ExposedHost.Host, Backend |-> apicast.ServiceName]>>,
   TLS |-> apicast.ExposedHost.TLS,
   Annotations |-> <<>>,
   OwnerReferences |-> <<apicast.OwnerReference>>,
   ResourceVersion |-> 0]

\* ------------------------------------------------------------------------
\* The in-memory part of the drivers.

\* FindEnvVar: the index of the first variable of that name, -1 when absent.
FindEnvVar(env, name) ==
  LET idx == {i \in 1..Len(env) : env[i].Name = name}
  IN IF idx = {} THEN -1 ELSE CHOOSE i \in idx : \A j \in idx : i <= j

\* ReconcileEnvVar: every desired variable is upserted by name into the
\* existing list; the other existing variables stay as they are.
RECURSIVE ReconcileEnvVarFrom(_, _, _, _)
ReconcileEnvVarFrom(existing, desired, i, update) ==
  IF i > Len(desired)
    THEN [env |-> existing, update |-> update]
    ELSE LET idx == FindEnvVar(existing, desired[i].Name)
         IN IF idx < 0
              THEN ReconcileEnvVarFrom(Append(existing, desired[i]), desired, i + 1, TRUE)
              ELSE IF existing[idx] # desired[i]
                THEN ReconcileEnvVarFrom([existing EXCEPT ![idx] = desired[i]], desired, i + 1, TRUE)
                ELSE ReconcileEnvVarFrom(existing, desired, i + 1, update)

ReconcileEnvVar(existing, desired) == ReconcileEnvVarFrom(existing, desired, 1, FALSE)

\* What the driver does with the error of its Get.
\* getBranch that takes every error of the Get for not-found.
getBranchAnyError(err) == IF err # ErrNil THEN "create" ELSE "found"

getBranch(err) ==
  IF err # ErrNil
    THEN IF err = ErrNotFound THEN "create" ELSE "return"
    ELSE "found"

\* reconcileDeployment between its Get and its Update: the existing object
\* as changed in memory, and the fields that set the changed flag.
\* reconcileDeploymentFields that sets the environment to the desired one.
reconcileDeploymentFieldsEnvReplaced(existing, desired) ==
  [obj |-> [existing EXCEPT
              !.Replicas = IF @ # desired.Replicas THEN desired.Replicas ELSE @,
              !.Image = desired.Image,
              !.ServiceAccountName = desired.ServiceAccountName,
              !.Env = desired.Env,
              !.Annotations = desired.Annotations,
              !.Volumes = desired.Volumes,
              !.VolumeMounts = desired.VolumeMounts],
   changedBy |->
     (IF existing.Replicas # desired.Replicas THEN {"Replicas"} ELSE {})
     \cup (IF existing.Env # desired.Env THEN {"Env"} ELSE {})]

\* reconcileDeploymentFields that merges the desired volumes and mounts into
\* the existing ones instead of setting them.
reconcileDeploymentFieldsVolumesMerged(existing, desired) ==
  LET env == ReconcileEnvVar(existing.Env, desired.Env)
      merge(old, new) == old \o SelectSeq(new, LAMBDA v : v \notin SeqToSet(old))
  IN [obj |-> [existing EXCEPT
                 !.Replicas = IF @ # desired.Replicas THEN desired.Replicas ELSE @,
                 !.Image = desired.Image,
                 !.ServiceAccountName = desired.ServiceAccountName,
                 !.Env = env.env,
                 !.Annotations = desired.Annotations,
                 !.Volumes = merge(@, desired.Volumes),
                 !.VolumeMounts = merge(@, desired.VolumeMounts)],
      changedBy |->
        (IF existing.Replicas # desired.Replicas THEN {"Replicas"} ELSE {})
        \cup (IF env.update THEN {"Env"} ELSE {})]

\* reconcileDeploymentFields that leaves the replica count of the existing
\* deployment alone.
reconcileDeploymentFieldsKeepingReplicas(existing, desired) ==
  LET env == ReconcileEnvVar(existing.Env, desired.Env)
  IN [obj |-> [existing EXCEPT
                 !.Image = desired.Image,
                 !.ServiceAccountName = desired.ServiceAccountName,
                 !.Env = env.env,
                 !.Annotations = desired.Annotations,
                 !.Volumes = desired.Volumes,
                 !.VolumeMounts = desired.VolumeMounts],
      changedBy |->
        (IF existing.Image # desired.Image THEN {"Image"} ELSE {})
        \cup (IF existing.ServiceAccountName # desired.ServiceAccountName
                THEN {"ServiceAccountName"} ELSE {})
        \cup (IF env.update THEN {"Env"} ELSE {})
        \cup (IF existing.Annotations # desired.Annotations THEN {"Annotations"} ELSE {})
        \cup (IF existing.Volumes # desired.Volumes THEN {"Volumes"} ELSE {})
        \cup (IF existing.VolumeMounts # desired.VolumeMounts THEN {"VolumeMounts"} ELSE {})]

\* reconcileDeploymentFields that takes the whole desired deployment over
\* when a field differs.
reconcileDeploymentFieldsWholesale(existing, desired) ==
  LET env == ReconcileEnvVar(existing.Env, desired.Env)
  IN [obj |-> [desired EXCEPT !.ResourceVersion = existing.ResourceVersion],
      changedBy |->
        (IF existing.Replicas # desired.Replicas THEN {"Replicas"} ELSE {})
        \cup (IF existing.Image # desired.Image THEN {"Image"} ELSE {})
        \cup (IF existing.ServiceAccountName # desired.ServiceAccountName
                THEN {"ServiceAccountName"} ELSE {})
        \cup (IF env.update THEN {"Env"} ELSE {})
        \cup (IF existing.Annotations # desired.Annotations THEN {"Annotations"} ELSE {})
        \cup (IF existing.Volumes # desired.Volumes THEN {"Volumes"} ELSE {})
        \cup (IF existing.VolumeMounts # desired.VolumeMounts THEN {"VolumeMounts"} ELSE {})]

reconcileDeploymentFields(existing, desired) ==
  LET env == ReconcileEnvVar(existing.Env, desired.Env)
  IN [obj |-> [existing EXCEPT
                 !.Replicas = IF @ # desired.Replicas THEN desired.Replicas ELSE @,
                 !.Image = desired.Image,
                 !.ServiceAccountName = desired.ServiceAccountName,
                 !.Env = env.env,
                 !.Annotations = desired.Annotations,
                 !.Volumes = desired.Volumes,
                 !.VolumeMounts = desired.VolumeMounts],
      changedBy |->
        (IF existing.Replicas # desired.Replicas THEN {"Replicas"} ELSE {})
        \cup (IF existing.Image # desired.Image THEN {"Image"} ELSE {})
        \cup (IF existing.ServiceAccountName # desired.ServiceAccountName
                THEN {"ServiceAccountName"} ELSE {})
        \cup (IF env.update THEN {"Env"} ELSE {})
        \cup (IF existing.Annotations # desired.Annotations THEN {"Annotations"} ELSE {})
        \cup (IF existing.Volumes # desired.Volumes THEN {"Volumes"} ELSE {})
        \cup (IF existing.VolumeMounts # desired.VolumeMounts THEN {"VolumeMounts"} ELSE {})]

\* The index of the last rule for that host, -1 when there is none.
exposedHostIdx(rules, host) ==
  LET idx == {i \in 1..Len(rules) : rules[i].Host = host}
  IN IF idx = {} THEN -1 ELSE CHOOSE i \in idx : \A j \in idx : i >= j

\* reconcileIngress between its Get and its Update.
\* reconcileIngressFields that adds the desired rules to the existing ones.
reconcileIngressFieldsAdding(existing, desired, a) ==
  LET idx == exposedHostIdx(existing.Rules, Deref(a.Spec.ExposedHost).Host)
  IN [obj |-> [existing EXCEPT
                 !.Rules = IF idx = -1 THEN @ \o desired.Rules ELSE @,
                 !.TLS = IF @ # desired.TLS THEN desired.TLS ELSE @],
      changedBy |->
        (IF idx = -1 THEN {"Rules"} ELSE {})
        \cup (IF existing.TLS # desired.TLS THEN {"TLS"} ELSE {})]

\* reconcileIngressFields that also brings the rule of the exposed host to
\* the desired rule.
reconcileIngressFieldsRefreshingRule(existing, desired, a) ==
  LET idx == exposedHostIdx(existing.Rules, Deref(a.Spec.ExposedHost).Host)
      rules == IF idx = -1 THEN desired.Rules
               ELSE [existing.Rules EXCEPT ![idx] = desired.Rules[1]]
  IN [obj |-> [existing EXCEPT
                 !.Rules = rules,
                 !.TLS = IF @ # desired.TLS THEN desired.TLS ELSE @],
      changedBy |->
        (IF rules # existing.Rules THEN {"Rules"} ELSE {})
        \cup (IF existing.TLS # desired.TLS THEN {"TLS"} ELSE {})]

reconcileIngressFields(existing, desired, a) ==
  LET idx == exposedHostIdx(existing.Rules, Deref(a.Spec.ExposedHost).Host)
  IN [obj |-> [existing EXCEPT
                 !.Rules = IF idx = -1 THEN desired.Rules ELSE @,
                 !.TLS = IF @ # desired.TLS THEN desired.TLS ELSE @],
      changedBy |->
        (IF idx = -1 THEN {"Rules"} ELSE {})
        \cup (IF existing.TLS # desired.TLS THEN {"TLS"} ELSE {})]

\* ------------------------------------------------------------------------
\* Reconcile: what the orchestrator does with the outcome of a stage.
Result(requeue, err) == [Requeue |-> requeue, err |-> err]

\* The stages with the service driver ahead of the deployment driver.
NextStageServiceFirst(stage, a) ==
  CASE stage = "initialize" -> "reconcileAdminPortalCredentials"
    [] stage = "reconcileAdminPortalCredentials" -> "reconcileGatewayEmbbededConfig"
    [] stage = "reconcileGatewayEmbbededConfig" -> "reconcileService"
    [] stage = "reconcileService" -> "reconcileDeployment"
    [] stage = "reconcileDeployment" ->
         IF IsNil(a.Spec.ExposedHost) THEN "done" ELSE "reconcileIngress"
    [] OTHER -> "done"

\* The stages with the ingress driver after the service driver whether a
\* host is exposed or not.
NextStageAlwaysIngress(stage, a) ==
  CASE stage = "initialize" -> "reconcileAdminPortalCredentials"
    [] stage = "reconcileAdminPortalCredentials" -> "reconcileGatewayEmbbededConfig"
    [] stage = "reconcileGatewayEmbbededConfig" -> "reconcileDeployment"
    [] stage = "reconcileDeployment" -> "reconcileService"
    [] stage = "reconcileService" -> "reconcileIngress"
    [] OTHER -> "done"

NextStage(stage, a) ==
  CASE stage = "initialize" -> "reconcileAdminPortalCredentials"
    [] stage = "reconcileAdminPortalCredentials" -> "reconcileGatewayEmbbededConfig"
    [] stage = "reconcileGatewayEmbbededConfig" -> "reconcileDeployment"
    [] stage = "reconcileDeployment" -> "reconcileService"
    [] stage = "reconcileService" ->
         IF IsNil(a.Spec.ExposedHost) THEN "done" ELSE "reconcileIngress"
    [] OTHER -> "done"

\* Reconcile without the stop after a stage that wrote.
ReconcileIgnoringChanged(stage, changed, err, a) ==
  IF err # ErrNil
    THEN [pc |-> "done", result |-> Result(FALSE, err)]
    ELSE [pc |-> NextStage(stage, a), result |-> Result(FALSE, ErrNil)]

\* Reconcile that goes on to the next stage after an error.
ReconcileSwallowingError(stage, changed, err, a) ==
  IF changed /\ err = ErrNil
    THEN [pc |-> "done", result |-> Result(TRUE, ErrNil)]
    ELSE [pc |-> NextStage(stage, a), result |-> Result(FALSE, ErrNil)]

\* Reconcile that looks at the changed flag of a stage before its error.
ReconcileChangedFirst(stage, changed, err, a) ==
  IF changed
    THEN [pc |-> "done", result |-> Result(TRUE, err)]
    ELSE IF err # ErrNil
      THEN [pc |-> "done", result |-> Result(FALSE, err)]
      ELSE [pc |-> NextStage(stage, a), result |-> Result(FALSE, ErrNil)]

Reconcile(stage, changed, err, a) ==
  IF err # ErrNil
    THEN [pc |-> "done", result |-> Result(FALSE, err)]
    ELSE IF changed
      THEN [pc |-> "done", result |-> Result(TRUE, ErrNil)]
      ELSE [pc |-> NextStage(stage, a), result |-> Result(FALSE, ErrNil)]

\* ------------------------------------------------------------------------
\* State.
VARIABLES
  cr,                   \* the store: the APIcast resource
  secrets,              \* the store: secret name -> None or the secret
  deployment,           \* the store: None or the deployment apicast-<name>
  service,              \* the store: None or the service apicast-<name>
  ingress,              \* the store: None or the ingress apicast-<name>
  pc,                   \* where the reconciler stands in its pass
  APIcastCR,            \* r.APIcastCR, the reconciler's copy of the resource
  userProvidedSecrets,  \* the secrets Reconcile got back from the two secret stages
  secretObj,            \* the secret a secret stage holds between its Get and its Update
  existingDeployment,   \* reconcileDeployment's existingDeployment
  existingIngress,      \* reconcileIngress's existingIngress
  changedBy,            \* per driver, the fields that set its changed / update flag
  observed,             \* per kind, the object as the pass's Get returned it
  result,               \* what Reconcile returns: reconcile.Result and the error
  log,                  \* the store calls of the current pass, in order
  history,              \* the results of the passes that have returned
  faults,               \* the I/O errors the store has answered with so far
  created,              \* per kind, the Creates the store has accepted
  externals,            \* the writes other clients of the store have made so far
  inspected,            \* the APIcastFromCRContents calls that returned a desired state
  limits                \* the run's bounds: passes, faults and external writes

storeVars == <<cr, secrets, deployment, service, ingress>>
vars == <<cr, secrets, deployment, service, ingress, pc, APIcastCR, userProvidedSecrets,
          secretObj, existingDeployment, existingIngress, changedBy, observed, result,
          log, history, faults, created, externals, inspected, limits>>

SecretNames == {AdmSecretName, CfgSecretName}
Kinds == {"Deployment", "Service", "Ingress"}

\* ------------------------------------------------------------------------
\* The scenarios a run starts from.
Secret(name, data, owners) ==
  [Name |-> name, Data |-> data, OwnerReferences |-> owners, ResourceVersion |-> 1]

AdmData(url) == [k \in {AdminPortalURLAttributeName} |-> url]
CfgData == [k \in {EmbeddedConfigurationSecretKey} |-> "{}"]
NoData == [k \in {} |-> ""]

NewCR(replicas, adminRef, configRef, exposedHost) ==
  [Name |-> CRName, UID |-> "uid-example", ResourceVersion |-> 1,
   Spec |-> [Replicas |-> replicas,
             AdminPortalCredentialsRef |-> adminRef,
             EmbeddedConfigurationSecretRef |-> configRef,
             ExposedHost |-> exposedHost,
             Image |-> None,
             ServiceAccount |-> None,
             LogLevel |-> Some("debug")]]

CRs ==
  {NewCR(replicas, adminRef, configRef, exposedHost) :
     replicas \in {None, Some(2)},
     adminRef \in {None, Some([Name |-> ""]), Some([Name |-> AdmSecretName])},
     configRef \in {None, Some([Name |-> ""]), Some([Name |-> CfgSecretName])},
     exposedHost \in {None, Some([Host |-> NewHost, TLS |-> <<>>])}}

Owner == asOwner([Name |-> CRName, UID |-> "uid-example"])

AdmSecrets ==
  {None,
   Some(Secret(AdmSecretName, NoData, <<>>)),
   Some(Secret(AdmSecretName, AdmData(URLNoUser), <<>>)),
   Some(Secret(AdmSecretName, AdmData(URLEmptyUser), <<>>)),
   Some(Secret(AdmSecretName, AdmData(URLBad), <<>>)),
   Some(Secret(AdmSecretName, AdmData(URLWithToken), <<>>)),
   Some(Secret(AdmSecretName, AdmData(URLWithToken), <<Owner>>)),
   Some(Secret(AdmSecretName, AdmData(URLWithToken), <<OtherOwner>>))}

CfgSecrets ==
  {None,
   Some(Secret(CfgSecretName, NoData, <<>>)),
   Some(Secret(CfgSecretName, CfgData, <<>>)),
   Some(Secret(CfgSecretName, CfgData, <<Owner>>))}

\* A deployment, a service and two ingresses left by earlier passes and
\* edited since by users.
OldDeployment ==
  [Name |-> "apicast-" \o CRName,
   Replicas |-> 3,
   Image |-> "quay.io/3scale/apicast:old",
   ServiceAccountName |-> "default",
   Env |-> <<[Name |-> "A", Value |-> "1"],
             [Name |-> "APICAST_LOG_LEVEL", Value |-> "info"]>>,
   Annotations |-> [k \in {"example.com/stale"} |-> 0],
   Volumes |-> <<[Name |-> "gateway-configuration", Secret |-> CfgSecretName],
                 [Name |-> "v2", Secret |-> "extra"]>>,
   VolumeMounts |-> <<[Name |-> "gateway-configuration", MountPath |-> "/tmp/gateway-configuration"],
                      [Name |-> "v2", MountPath |-> "/extra"]>>,
   Labels |-> <<[Name |-> "app", Value |-> "apicast"], [Name |-> "team", Value |-> "gateways"]>>,
   OwnerReferences |-> <<Owner>>,
   ResourceVersion |-> 5]

OldService ==
  [Name |-> "apicast-" \o CRName,
   Selector |-> "legacy",
   Ports |-> <<8080>>,
   OwnerReferences |-> <<Owner>>,
   ResourceVersion |-> 5]

IngressOldHost ==
  [Name |-> "apicast-" \o CRName,
   Rules |-> <<[Host |-> OldHost, Backend |-> "apicast-" \o CRName]>>,
   TLS |-> <<>>,
   Annotations |-> <<[Name |-> "kubernetes.io/ingress.class", Value |-> "nginx"]>>,
   OwnerReferences |-> <<Owner>>,
   ResourceVersion |-> 5]

IngressBothHosts ==
  [Name |-> "apicast-" \o CRName,
   Rules |-> <<[Host |-> NewHost, Backend |-> "legacy"],
               [Host |-> OldHost, Backend |-> "apicast-" \o CRName]>>,
   TLS |-> <<[Hosts |-> <<OldHost>>, SecretName |-> "old-tls"]>>,
   Annotations |-> <<>>,
   OwnerReferences |-> <<Owner>>,
   ResourceVersion |-> 5]

\* The reconciler before its first pass.
Fresh ==
  /\ pc = "idle"
  /\ APIcastCR = cr
  /\ userProvidedSecrets = [adminPortalCredentialsSecret |-> None,
                            gatewayEmbeddedConfigSecret |-> None]
  /\ secretObj = None
  /\ existingDeployment = None
  /\ existingIngress = None
  /\ changedBy = [k \in {"Deployment", "Ingress"} |-> {}]
  /\ observed = [k \in Kinds |-> None]
  /\ result = Result(FALSE, ErrNil)
  /\ log = <<>>
  /\ history = <<>>
  /\ faults = 0
  /\ created = [k \in Kinds |-> 0]
  /\ externals = 0
  /\ inspected = None

Init ==
  /\ cr \in CRs
  /\ secrets \in {s \in [SecretNames -> AdmSecrets \cup CfgSecrets] :
        /\ s[AdmSecretName] \in AdmSecrets
        /\ s[CfgSecretName] \in CfgSecrets
        /\ cr.Spec.AdminPortalCredentialsRef # Some([Name |-> AdmSecretName])
             => s[AdmSecretName] = None
        /\ cr.Spec.EmbeddedConfigurationSecretRef # Some([Name |-> CfgSecretName])
             => s[CfgSecretName] = None}
  /\ deployment \in {None, Some(OldDeployment)}
  /\ service = IF IsNil(deployment) THEN None ELSE Some(OldService)
  /\ ingress \in IF IsNil(cr.Spec.ExposedHost) THEN {None}
                 ELSE {None, Some(IngressOldHost), Some(IngressBothHosts)}
  /\ limits = [passes |-> MaxPasses, faults |-> MaxFaults, externals |-> 0]
  /\ Fresh

\* The store may answer a call with an I/O error, MaxFaults times in a run.
FaultChoices == IF faults < limits.faults THEN {FALSE, TRUE} ELSE {FALSE}

Hit(fault) == IF fault THEN 1 ELSE 0

\* ------------------------------------------------------------------------
\* The pass.

\* The controller hands the reconciler the resource as the store has it and
\* calls Reconcile.
StartReconcile ==
  /\ pc = "idle"
  /\ Len(history) < limits.passes
  /\ pc' = "initialize"
  /\ APIcastCR' = cr
  /\ userProvidedSecrets' = [adminPortalCredentialsSecret |-> None,
                             gatewayEmbeddedConfigSecret |-> None]
  /\ secretObj' = None
  /\ existingDeployment' = None
  /\ existingIngress' = None
  /\ changedBy' = [k \in {"Deployment", "Ingress"} |-> {}]
  /\ observed' = [k \in Kinds |-> None]
  /\ result' = Result(FALSE, ErrNil)
  /\ log' = <<>>
  /\ UNCHANGED <<limits, externals, inspected, storeVars, history, faults, created>>

\* initialize: fill the defaults in and, when one was filled in, update the
\* resource in the store.
initialize ==
  /\ pc = "initialize"
  /\ \E fault \in FaultChoices :
       LET init == applyInitialization(APIcastCR)
           call == init.appliedInitialization
           out == IF call THEN UpdateOutcome(Some(cr), init.cr, fault) ELSE ErrNil
           ret == Reconcile("initialize", call /\ out = ErrNil, out, init.cr)
       IN /\ fault => call
          /\ APIcastCR' = IF call /\ out = ErrNil THEN Written(init.cr) ELSE init.cr
          /\ cr' = IF call /\ out = ErrNil THEN Written(init.cr) ELSE cr
          /\ log' = IF call
                      THEN Append(log, LogEntry("Update", "APIcast", init.cr.Name, out,
                                  IF out = ErrNil THEN Written(init.cr).ResourceVersion ELSE 0))
                      ELSE log
          /\ faults' = faults + Hit(fault)
          /\ pc' = ret.pc
          /\ result' = ret.result
  /\ UNCHANGED <<limits, externals, inspected, secrets, deployment, service, ingress, userProvidedSecrets, secretObj,
                 existingDeployment, existingIngress, changedBy, observed, history, created>>

\* reconcileAdminPortalCredentials up to its Update.
reconcileAdminPortalCredentials ==
  /\ pc = "reconcileAdminPortalCredentials"
  /\ IF IsNil(APIcastCR.Spec.AdminPortalCredentialsRef)
       THEN LET ret == Reconcile("reconcileAdminPortalCredentials", FALSE, ErrNil, APIcastCR)
            IN /\ pc' = ret.pc
               /\ result' = ret.result
               /\ UNCHANGED <<log, faults, secretObj, userProvidedSecrets>>
       ELSE \E fault \in FaultChoices :
              LET got == getAdminPortalCredentialsSecret(APIcastCR, secrets, fault)
                  own == IF got.err = ErrNil
                           THEN ensureOwnerReference(APIcastCR, Deref(got.secret))
                           ELSE [obj |-> None, changed |-> FALSE, err |-> got.err]
                  ret == Reconcile("reconcileAdminPortalCredentials", FALSE, own.err, APIcastCR)
              IN /\ fault => got.calls # <<>>
                 /\ log' = log \o got.calls
                 /\ faults' = faults + Hit(fault)
                 /\ IF own.err = ErrNil /\ own.changed
                      THEN /\ pc' = "updateAdminPortalCredentials"
                           /\ secretObj' = Some(own.obj)
                           /\ UNCHANGED <<result, userProvidedSecrets>>
                      ELSE /\ pc' = ret.pc
                           /\ result' = ret.result
                           /\ secretObj' = None
                           /\ userProvidedSecrets' =
                                IF own.err = ErrNil
                                  THEN [userProvidedSecrets EXCEPT
                                          !.adminPortalCredentialsSecret = Some(own.obj)]
                                  ELSE userProvidedSecrets
  /\ UNCHANGED <<limits, externals, inspected, storeVars, APIcastCR, existingDeployment, existingIngress, changedBy,
                 observed, history, created>>

\* reconcileAdminPortalCredentials: the Update of the secret that got the
\* owner reference.
updateAdminPortalCredentials ==
  /\ pc = "updateAdminPortalCredentials"
  /\ \E fault \in FaultChoices :
       LET obj == Deref(secretObj)
           out == UpdateOutcome(secrets[obj.Name], obj, fault)
           ret == Reconcile("reconcileAdminPortalCredentials", TRUE, out, APIcastCR)
       IN /\ secrets' = IF out = ErrNil THEN [secrets EXCEPT ![obj.Name] = Some(Written(obj))]
                        ELSE secrets
          /\ log' = Append(log, LogEntry("Update", "Secret", obj.Name, out,
                           IF out = ErrNil THEN Written(obj).ResourceVersion ELSE 0))
          /\ faults' = faults + Hit(fault)
          /\ userProvidedSecrets' =
               IF out = ErrNil
                 THEN [userProvidedSecrets EXCEPT !.adminPortalCredentialsSecret = Some(Written(obj))]
                 ELSE userProvidedSecrets
          /\ pc' = ret.pc
          /\ result' = ret.result
  /\ UNCHANGED <<limits, externals, inspected, cr, deployment, service, ingress, APIcastCR, secretObj, existingDeployment,
                 existingIngress, changedBy, observed, history, created>>

\* reconcileGatewayEmbbededConfig up to its Update.
reconcileGatewayEmbbededConfig ==
  /\ pc = "reconcileGatewayEmbbededConfig"
  /\ IF IsNil(APIcastCR.Spec.EmbeddedConfigurationSecretRef)
       THEN LET ret == Reconcile("reconcileGatewayEmbbededConfig", FALSE, ErrNil, APIcastCR)
            IN /\ pc' = ret.pc
               /\ result' = ret.result
               /\ UNCHANGED <<log, faults, secretObj, userProvidedSecrets>>
       ELSE \E fault \in FaultChoices :
              LET got == getGatewayEmbeddedConfigSecret(APIcastCR, secrets, fault)
                  own == IF got.err = ErrNil
                           THEN ensureOwnerReference(APIcastCR, Deref(got.secret))
                           ELSE [obj |-> None, changed |-> FALSE, err |-> got.err]
                  ret == Reconcile("reconcileGatewayEmbbededConfig", FALSE, own.err, APIcastCR)
              IN /\ fault => got.calls # <<>>
                 /\ log' = log \o got.calls
                 /\ faults' = faults + Hit(fault)
                 /\ IF own.err = ErrNil /\ own.changed
                      THEN /\ pc' = "updateGatewayEmbbededConfig"
                           /\ secretObj' = Some(own.obj)
                           /\ UNCHANGED <<result, userProvidedSecrets>>
                      ELSE /\ pc' = ret.pc
                           /\ result' = ret.result
                           /\ secretObj' = None
                           /\ userProvidedSecrets' =
                                IF own.err = ErrNil
                                  THEN [userProvidedSecrets EXCEPT
                                          !.gatewayEmbeddedConfigSecret = Some(own.obj)]
                                  ELSE userProvidedSecrets
  /\ UNCHANGED <<limits, externals, inspected, storeVars, APIcastCR, existingDeployment, existingIngress, changedBy,
                 observed, history, created>>

\* reconcileGatewayEmbbededConfig: the Update of the secret.
updateGatewayEmbbededConfig ==
  /\ pc = "updateGatewayEmbbededConfig"
  /\ \E fault \in FaultChoices :
       LET obj == Deref(secretObj)
           out == UpdateOutcome(secrets[obj.Name], obj, fault)
           ret == Reconcile("reconcileGatewayEmbbededConfig", TRUE, out, APIcastCR)
       IN /\ secrets' = IF out = ErrNil THEN [secrets EXCEPT ![obj.Name] = Some(Written(obj))]
                        ELSE secrets
          /\ log' = Append(log, LogEntry("Update", "Secret", obj.Name, out,
                           IF out = ErrNil THEN Written(obj).ResourceVersion ELSE 0))
          /\ faults' = faults + Hit(fault)
          /\ userProvidedSecrets' =
               IF out = ErrNil
                 THEN [userProvidedSecrets EXCEPT !.gatewayEmbeddedConfigSecret = Some(Written(obj))]
                 ELSE userProvidedSecrets
          /\ pc' = ret.pc
          /\ result' = ret.result
  /\ UNCHANGED <<limits, externals, inspected, cr, deployment, service, ingress, APIcastCR, secretObj, existingDeployment,
                 existingIngress, changedBy, observed, history, created>>

\* The desired state of the pass, built once both secret stages are through.
desiredAPIcast == internalAPIcast(APIcastCR, userProvidedSecrets)

\* reconcileDeployment: the Get and, when the deployment exists, the
\* comparison of its fields with the desired ones.
reconcileDeployment ==
  /\ pc = "reconcileDeployment"
  /\ \E fault \in FaultChoices :
       LET desiredDeployment == Deployment(desiredAPIcast)
           out == GetOutcome(deployment, fault)
           branch == getBranch(out)
           ret == Reconcile("reconcileDeployment", FALSE, IF branch = "found" THEN ErrNil ELSE out,
                            APIcastCR)
       IN /\ log' = Append(log, LogEntry("Get", "Deployment", desiredDeployment.Name, out, 0))
          /\ faults' = faults + Hit(fault)
          /\ IF branch = "create"
               THEN /\ pc' = "createDeployment"
                    /\ UNCHANGED <<result, existingDeployment, changedBy, observed>>
               ELSE IF branch = "return"
                 THEN /\ pc' = ret.pc
                      /\ result' = ret.result
                      /\ UNCHANGED <<existingDeployment, changedBy, observed>>
                 ELSE LET rec == reconcileDeploymentFields(loadDeployment(Deref(deployment)),
                                                           desiredDeployment)
                      IN /\ existingDeployment' = Some(rec.obj)
                         /\ changedBy' = [changedBy EXCEPT !["Deployment"] = rec.changedBy]
                         /\ observed' = [observed EXCEPT !["Deployment"] = deployment]
                         /\ IF rec.changedBy # {}
                              THEN pc' = "updateDeployment" /\ UNCHANGED result
                              ELSE pc' = ret.pc /\ result' = ret.result
  /\ UNCHANGED <<limits, externals, inspected, storeVars, APIcastCR, userProvidedSecrets, secretObj, existingIngress,
                 history, created>>

createDeployment ==
  /\ pc = "createDeployment"
  /\ \E fault \in FaultChoices :
       LET obj == storeDeployment(Deployment(desiredAPIcast))
           out == CreateOutcome(deployment, fault)
           ret == Reconcile("reconcileDeployment", FALSE, out, APIcastCR)
       IN /\ deployment' = IF out = ErrNil THEN Some(Written(obj)) ELSE deployment
          /\ created' = IF out = ErrNil THEN [created EXCEPT !["Deployment"] = @ + 1] ELSE created
          /\ log' = Append(log, LogEntry("Create", "Deployment", obj.Name, out,
                           IF out = ErrNil THEN Written(obj).ResourceVersion ELSE 0))
          /\ faults' = faults + Hit(fault)
          /\ pc' = ret.pc
          /\ result' = ret.result
  /\ UNCHANGED <<limits, externals, inspected, cr, secrets, service, ingress, APIcastCR, userProvidedSecrets, secretObj,
                 existingDeployment, existingIngress, changedBy, observed, history>>

\* updateDeployment taking the resource version the store holds at the time
\* of the Update instead of the one the Get returned.
updateDeploymentForced ==
  /\ pc = "updateDeployment"
  /\ \E fault \in FaultChoices :
       LET obj == [storeDeployment(Deref(existingDeployment)) EXCEPT
                     !.ResourceVersion = Deref(deployment).ResourceVersion]
           out == UpdateOutcome(deployment, obj, fault)
           ret == Reconcile("reconcileDeployment", FALSE, out, APIcastCR)
       IN /\ deployment' = IF out = ErrNil THEN Some(Written(obj)) ELSE deployment
          /\ log' = Append(log, LogEntry("Update", "Deployment", obj.Name, out,
                           IF out = ErrNil THEN Written(obj).ResourceVersion ELSE 0))
          /\ faults' = faults + Hit(fault)
          /\ pc' = ret.pc
          /\ result' = ret.result
  /\ UNCHANGED <<limits, externals, inspected, cr, secrets, service, ingress, APIcastCR, userProvidedSecrets, secretObj,
                 existingDeployment, existingIngress, changedBy, observed, history, created>>

updateDeployment ==
  /\ pc = "updateDeployment"
  /\ \E fault \in FaultChoices :
       LET obj == storeDeployment(Deref(existingDeployment))
           out == UpdateOutcome(deployment, obj, fault)
           ret == Reconcile("reconcileDeployment", FALSE, out, APIcastCR)
       IN /\ deployment' = IF out = ErrNil THEN Some(Written(obj)) ELSE deployment
          /\ log' = Append(log, LogEntry("Update", "Deployment", obj.Name, out,
                           IF out = ErrNil THEN Written(obj).ResourceVersion ELSE 0))
          /\ faults' = faults + Hit(fault)
          /\ pc' = ret.pc
          /\ result' = ret.result
  /\ UNCHANGED <<limits, externals, inspected, cr, secrets, service, ingress, APIcastCR, userProvidedSecrets, secretObj,
                 existingDeployment, existingIngress, changedBy, observed, history, created>>

\* reconcileService that brings an existing service to the desired one.
reconcileServiceOverwriting ==
  /\ pc = "reconcileService"
  /\ \E fault \in FaultChoices :
       LET desiredService == Service(desiredAPIcast)
           out == GetOutcome(service, fault)
           branch == getBranch(out)
           ret == Reconcile("reconcileService", FALSE, IF branch = "found" THEN ErrNil ELSE out,
                            APIcastCR)
           obj == [desiredService EXCEPT
                     !.ResourceVersion = IF IsNil(service) THEN 0 ELSE Deref(service).ResourceVersion]
       IN /\ faults' = faults + Hit(fault)
          /\ observed' = IF branch = "found" THEN [observed EXCEPT !["Service"] = service]
                         ELSE observed
          /\ IF branch = "found"
               THEN /\ service' = Some(Written(obj))
                    /\ log' = log \o <<LogEntry("Get", "Service", desiredService.Name, out, 0),
                                       LogEntry("Update", "Service", desiredService.Name, ErrNil,
                                                Written(obj).ResourceVersion)>>
               ELSE /\ service' = service
                    /\ log' = Append(log, LogEntry("Get", "Service", desiredService.Name, out, 0))
          /\ IF branch = "create"
               THEN pc' = "createService" /\ UNCHANGED result
               ELSE pc' = ret.pc /\ result' = ret.result
  /\ UNCHANGED <<limits, externals, inspected, cr, secrets, deployment, ingress, APIcastCR, userProvidedSecrets,
                 secretObj, existingDeployment, existingIngress, changedBy, history, created>>

\* reconcileService that deletes the ingress of a resource without exposed
\* host once the service is there.
reconcileServicePruningIngress ==
  /\ pc = "reconcileService"
  /\ \E fault \in FaultChoices :
       LET desiredService == Service(desiredAPIcast)
           out == GetOutcome(service, fault)
           branch == getBranch(out)
           ret == Reconcile("reconcileService", FALSE, IF branch = "found" THEN ErrNil ELSE out,
                            APIcastCR)
           prune == branch = "found" /\ IsNil(APIcastCR.Spec.ExposedHost) /\ ~IsNil(ingress)
       IN /\ faults' = faults + Hit(fault)
          /\ observed' = IF branch = "found" THEN [observed EXCEPT !["Service"] = service]
                         ELSE observed
          /\ IF prune
               THEN /\ ingress' = None
                    /\ log' = log \o <<LogEntry("Get", "Service", desiredService.Name, out, 0),
                                       LogEntry("Delete", "Ingress", desiredService.Name, ErrNil, 0)>>
               ELSE /\ ingress' = ingress
                    /\ log' = Append(log, LogEntry("Get", "Service", desiredService.Name, out, 0))
          /\ IF branch = "create"
               THEN pc' = "createService" /\ UNCHANGED result
               ELSE pc' = ret.pc /\ result' = ret.result
  /\ UNCHANGED <<limits, externals, inspected, cr, secrets, deployment, service, APIcastCR,
                 userProvidedSecrets, secretObj, existingDeployment, existingIngress, changedBy,
                 history, created>>

\* reconcileService: the Get; an existing service is left as it is.
reconcileService ==
  /\ pc = "reconcileService"
  /\ \E fault \in FaultChoices :
       LET desiredService == Service(desiredAPIcast)
           out == GetOutcome(service, fault)
           branch == getBranch(out)
           ret == Reconcile("reconcileService", FALSE, IF branch = "found" THEN ErrNil ELSE out,
                            APIcastCR)
       IN /\ log' = Append(log, LogEntry("Get", "Service", desiredService.Name, out, 0))
          /\ faults' = faults + Hit(fault)
          /\ observed' = IF branch = "found" THEN [observed EXCEPT !["Service"] = service]
                         ELSE observed
          /\ IF branch = "create"
               THEN pc' = "createService" /\ UNCHANGED result
               ELSE pc' = ret.pc /\ result' = ret.result
  /\ UNCHANGED <<limits, externals, inspected, storeVars, APIcastCR, userProvidedSecrets, secretObj, existingDeployment,
                 existingIngress, changedBy, history, created>>

createService ==
  /\ pc = "createService"
  /\ \E fault \in FaultChoices :
       LET obj == Service(desiredAPIcast)
           out == CreateOutcome(service, fault)
           ret == Reconcile("reconcileService", FALSE, out, APIcastCR)
       IN /\ service' = IF out = ErrNil THEN Some(Written(obj)) ELSE service
          /\ created' = IF out = ErrNil THEN [created EXCEPT !["Service"] = @ + 1] ELSE created
          /\ log' = Append(log, LogEntry("Create", "Service", obj.Name, out,
                           IF out = ErrNil THEN Written(obj).ResourceVersion ELSE 0))
          /\ faults' = faults + Hit(fault)
          /\ pc' = ret.pc
          /\ result' = ret.result
  /\ UNCHANGED <<limits, externals, inspected, cr, secrets, deployment, ingress, APIcastCR, userProvidedSecrets, secretObj,
                 existingDeployment, existingIngress, changedBy, observed, history>>

\* reconcileIngress: the Get and, when the ingress exists, the comparison of
\* its rules and TLS block with the desired ones.
reconcileIngress ==
  /\ pc = "reconcileIngress"
  /\ \E fault \in FaultChoices :
       LET desiredIngress == Ingress(desiredAPIcast)
           out == GetOutcome(ingress, fault)
           branch == getBranch(out)
           ret == Reconcile("reconcileIngress", FALSE, IF branch = "found" THEN ErrNil ELSE out,
                            APIcastCR)
       IN /\ log' = Append(log, LogEntry("Get", "Ingress", desiredIngress.Name, out, 0))
          /\ faults' = faults + Hit(fault)
          /\ IF branch = "create"
               THEN /\ pc' = "createIngress"
                    /\ UNCHANGED <<result, existingIngress, changedBy, observed>>
               ELSE IF branch = "return"
                 THEN /\ pc' = ret.pc
                      /\ result' = ret.result
                      /\ UNCHANGED <<existingIngress, changedBy, observed>>
                 ELSE LET rec == reconcileIngressFields(Deref(ingress), desiredIngress, APIcastCR)
                      IN /\ existingIngress' = Some(rec.obj)
                         /\ changedBy' = [changedBy EXCEPT !["Ingress"] = rec.changedBy]
                         /\ observed' = [observed EXCEPT !["Ingress"] = ingress]
                         /\ IF rec.changedBy # {}
                              THEN pc' = "updateIngress" /\ UNCHANGED result
                              ELSE pc' = ret.pc /\ result' = ret.result
  /\ UNCHANGED <<limits, externals, inspected, storeVars, APIcastCR, userProvidedSecrets, secretObj, existingDeployment,
                 history, created>>

createIngress ==
  /\ pc = "createIngress"
  /\ \E fault \in FaultChoices :
       LET obj == Ingress(desiredAPIcast)
           out == CreateOutcome(ingress, fault)
           ret == Reconcile("reconcileIngress", FALSE, out, APIcastCR)
       IN /\ ingress' = IF out = ErrNil THEN Some(Written(obj)) ELSE ingress
          /\ created' = IF out = ErrNil THEN [created EXCEPT !["Ingress"] = @ + 1] ELSE created
          /\ log' = Append(log, LogEntry("Create", "Ingress", obj.Name, out,
                           IF out = ErrNil THEN Written(obj).ResourceVersion ELSE 0))
          /\ faults' = faults + Hit(fault)
          /\ pc' = ret.pc
          /\ result' = ret.result
  /\ UNCHANGED <<limits, externals, inspected, cr, secrets, deployment, service, APIcastCR, userProvidedSecrets, secretObj,
                 existingDeployment, existingIngress, changedBy, observed, history>>

updateIngress ==
  /\ pc = "updateIngress"
  /\ \E fault \in FaultChoices :
       LET obj == Deref(existingIngress)
           out == UpdateOutcome(ingress, obj, fault)
           ret == Reconcile("reconcileIngress", FALSE, out, APIcastCR)
       IN /\ ingress' = IF out = ErrNil THEN Some(Written(obj)) ELSE ingress
          /\ log' = Append(log, LogEntry("Update", "Ingress", obj.Name, out,
                           IF out = ErrNil THEN Written(obj).ResourceVersion ELSE 0))
          /\ faults' = faults + Hit(fault)
          /\ pc' = ret.pc
          /\ result' = ret.result
  /\ UNCHANGED <<limits, externals, inspected, cr, secrets, deployment, service, APIcastCR, userProvidedSecrets, secretObj,
                 existingDeployment, existingIngress, changedBy, observed, history, created>>

\* Reconcile has returned: the controller takes the result.
Return ==
  /\ pc = "done"
  /\ pc' = "idle"
  /\ history' = Append(history, result)
  /\ UNCHANGED <<limits, externals, inspected, storeVars, APIcastCR, userProvidedSecrets, secretObj, existingDeployment,
                 existingIngress, changedBy, observed, result, log, faults, created>>

Next ==
  \/ StartReconcile
  \/ initialize
  \/ reconcileAdminPortalCredentials
  \/ updateAdminPortalCredentials
  \/ reconcileGatewayEmbbededConfig
  \/ updateGatewayEmbbededConfig
  \/ reconcileDeployment
  \/ createDeployment
  \/ updateDeployment
  \/ reconcileService
  \/ createService
  \/ reconcileIngress
  \/ createIngress
  \/ updateIngress
  \/ Return

Spec == Init /\ [][Next]_vars

\* ------------------------------------------------------------------------
\* Other clients of the store. Users, autoscalers and other controllers
\* write to the objects the reconciler works on, at any point of a pass;
\* the store gives every accepted write a new resource version.
reconcilerVars == <<pc, APIcastCR, userProvidedSecrets, secretObj, existingDeployment,
                    existingIngress, changedBy, observed, result, log, history, faults,
                    created, inspected, limits>>

\* The deployment of an earlier pass, moved to another service account by a
\* user.
EditedDeployment == [OldDeployment EXCEPT !.ServiceAccountName = "builder"]

ScaledReplicas == 7

\* An autoscaler scales the deployment, or a user labels it.
ExternalDeploymentWrite ==
  /\ externals < limits.externals
  /\ ~IsNil(deployment)
  /\ \E edit \in {"Replicas", "Labels"} :
       deployment' = Some(Written(
         IF edit = "Replicas"
           THEN [Deref(deployment) EXCEPT !.Replicas = ScaledReplicas]
           ELSE [Deref(deployment) EXCEPT
                   !.Labels = Append(@, [Name |-> "edited-by", Value |-> "user"])]))
  /\ externals' = externals + 1
  /\ UNCHANGED <<cr, secrets, service, ingress, reconcilerVars>>

\* A user annotates the ingress.
ExternalIngressWrite ==
  /\ externals < limits.externals
  /\ ~IsNil(ingress)
  /\ ingress' = Some(Written([Deref(ingress) EXCEPT
                   !.Annotations = Append(@, [Name |-> "edited-by", Value |-> "user"])]))
  /\ externals' = externals + 1
  /\ UNCHANGED <<cr, secrets, deployment, service, reconcilerVars>>

\* A user writes one of the two secrets again (a rotation that keeps the
\* secret well formed).
ExternalSecretWrite ==
  /\ externals < limits.externals
  /\ \E name \in SecretNames :
       /\ ~IsNil(secrets[name])
       /\ secrets' = [secrets EXCEPT ![name] = Some(Written(Deref(@)))]
  /\ externals' = externals + 1
  /\ UNCHANGED <<cr, deployment, service, ingress, reconcilerVars>>

\* A user withdraws the exposed host from the APIcast resource.
ExternalAPIcastWrite ==
  /\ externals < limits.externals
  /\ ~IsNil(cr.Spec.ExposedHost)
  /\ cr' = Written([cr EXCEPT !.Spec.ExposedHost = None])
  /\ externals' = externals + 1
  /\ UNCHANGED <<secrets, deployment, service, ingress, reconcilerVars>>

\* Runs with other writers start from well-formed secrets and meet no I/O
\* error.
InitExt ==
  /\ cr \in {NewCR(replicas, Some([Name |-> AdmSecretName]), configRef,
                   Some([Host |-> NewHost, TLS |-> <<>>])) :
               replicas \in {None, Some(2)},
               configRef \in {None, Some([Name |-> CfgSecretName])}}
  /\ secrets \in {s \in [SecretNames -> AdmSecrets \cup CfgSecrets] :
        /\ s[AdmSecretName] \in {Some(Secret(AdmSecretName, AdmData(URLWithToken), <<>>)),
                                 Some(Secret(AdmSecretName, AdmData(URLWithToken), <<Owner>>))}
        /\ s[CfgSecretName] \in IF IsNil(cr.Spec.EmbeddedConfigurationSecretRef) THEN {None}
                                 ELSE {Some(Secret(CfgSecretName, CfgData, <<>>)),
                                       Some(Secret(CfgSecretName, CfgData, <<Owner>>))}}
  /\ deployment \in {None, Some(EditedDeployment)}
  /\ service = IF IsNil(deployment) THEN None ELSE Some(OldService)
  /\ ingress \in {None, Some(IngressBothHosts)}
  /\ limits = [passes |-> MaxPasses, faults |-> 0, externals |-> MaxExternal]
  /\ Fresh

NextExt ==
  \/ Next
  \/ ExternalDeploymentWrite
  \/ ExternalIngressWrite
  \/ ExternalSecretWrite
  \/ ExternalAPIcastWrite

SpecExt == InitExt /\ [][NextExt]_vars

\* ------------------------------------------------------------------------
\* Vocabulary of the properties.
IsWrite(e) == e.op \in {"Create", "Update"}
Accepted(e) == e.res = ErrNil
PassOver == pc \in {"done", "idle"}
LastCall == log[Len(log)]
Stored(kind, name) ==
  CASE kind = "APIcast" -> Some(cr)
    [] kind = "Secret" -> secrets[name]
    [] kind = "Deployment" -> deployment
    [] kind = "Service" -> service
    [] OTHER -> ingress

\* A call of the log that is an accepted Update of the deployment.
DeploymentUpdated ==
  \E i \in 1..Len(log) :
    log[i].op = "Update" /\ log[i].kind = "Deployment" /\ Accepted(log[i])

\* ------------------------------------------------------------------------
\* C1. Idempotence of the full pass: a pass that follows a pass which ended
\* done (no re-queue, no error), with nothing else writing to the store in
\* between, issues no Create and no Update.
C1_SecondPassWritesNothing ==
  (pc # "idle" /\ Len(history) >= 1 /\ history[Len(history)] = Result(FALSE, ErrNil))
    => \A i \in 1..Len(log) : ~IsWrite(log[i])

\* ------------------------------------------------------------------------
\* C2. Stop after an own write: an accepted Update of a secret is the last
\* store call of its pass, and the pass returns the re-queue signal with no
\* error.
C2_StopAfterSecretWrite ==
  \A i \in 1..Len(log) :
    (log[i].op = "Update" /\ log[i].kind = "Secret" /\ Accepted(log[i]))
      => /\ i = Len(log)
         /\ PassOver
         /\ result = Result(TRUE, ErrNil)
         /\ \A j \in 1..Len(log) : log[j].kind \notin Kinds
         /\ log[i].name = AdmSecretName
              => \A j \in 1..Len(log) : log[j].name # CfgSecretName

\* A pass that read the admin secret, then gave the config secret its owner
\* reference and returned.
C2_Witness ==
  /\ pc = "done"
  /\ Len(log) = 3
  /\ log[1].name = AdmSecretName
  /\ log[3] = LogEntry("Update", "Secret", CfgSecretName, ErrNil, 2)
  /\ Owner \in SeqToSet(Deref(secrets[CfgSecretName]).OwnerReferences)

\* ------------------------------------------------------------------------
\* C3. Default fill: the step of a pass on a resource without a replica
\* count issues one store call, the Update of the resource; when the store
\* accepts it the stored resource has replica count 1 and is otherwise the
\* same, nothing else in the store changes, and the pass is over with the
\* re-queue signal.
C3_DefaultFillRequeue ==
  [][(pc = "initialize" /\ IsNil(APIcastCR.Spec.Replicas))
       => /\ Len(log') = 1
          /\ log'[1].op = "Update" /\ log'[1].kind = "APIcast"
          /\ Accepted(log'[1])
               => /\ cr' = [cr EXCEPT !.Spec.Replicas = Some(1),
                                      !.ResourceVersion = @ + 1]
                  /\ UNCHANGED <<secrets, deployment, service, ingress>>
                  /\ pc' = "done"
                  /\ result' = Result(TRUE, ErrNil)]_vars

C3_Witness ==
  /\ pc = "done"
  /\ log = <<LogEntry("Update", "APIcast", CRName, ErrNil, 2)>>
  /\ result = Result(TRUE, ErrNil)
  /\ cr.Spec.Replicas = Some(1)
  /\ ~IsNil(cr.Spec.AdminPortalCredentialsRef)

\* ------------------------------------------------------------------------
\* C4. Error abort: a failed store call (any error of a Create or an Update,
\* any error of a secret Get, any error but not-found of the Get of the
\* deployment, the service or the ingress) is the last store call of its
\* pass; the pass returns that error without the re-queue flag, and what
\* the pass wrote before is still what the store holds.
Failed(e) ==
  /\ e.res # ErrNil
  /\ ~(e.op = "Get" /\ e.kind \in Kinds /\ e.res = ErrNotFound)

C4_ErrorAbort ==
  \A i \in 1..Len(log) :
    Failed(log[i])
      => /\ i = Len(log)
         /\ PassOver
         /\ result = Result(FALSE, log[i].res)
         /\ \A j \in 1..(i - 1) :
              (IsWrite(log[j]) /\ Accepted(log[j]))
                => /\ ~IsNil(Stored(log[j].kind, log[j].name))
                   /\ Deref(Stored(log[j].kind, log[j].name)).ResourceVersion = log[j].rv

\* A pass that created the deployment and then failed on the service.
C4_Witness ==
  /\ pc = "done"
  /\ \E i \in 2..Len(log) :
       /\ Failed(log[i]) /\ log[i].kind = "Service"
       /\ log[i - 1] = LogEntry("Create", "Deployment", "apicast-" \o CRName, ErrNil, 1)
  /\ ~IsNil(deployment)
  /\ result.err = ErrIO

\* ------------------------------------------------------------------------
\* C5. Create only when absent: for the deployment, the service and the
\* ingress, a Create is issued exactly after a Get of the same pass that
\* answered not-found, never together with an Update, never after a Get
\* that found the object; and over all passes the store accepts at most one
\* Create per object.
C5_CreateOnlyWhenAbsent ==
  \A k \in Kinds :
    /\ \A i \in 1..Len(log) :
         (log[i].op = "Create" /\ log[i].kind = k)
           => /\ i > 1
              /\ log[i - 1].op = "Get" /\ log[i - 1].kind = k /\ log[i - 1].res = ErrNotFound
              /\ \A j \in 1..Len(log) : ~(log[j].op = "Update" /\ log[j].kind = k)
    /\ \A i \in 1..Len(log) :
         (log[i].op = "Get" /\ log[i].kind = k /\ log[i].res = ErrNotFound)
           => IF i < Len(log)
                THEN log[i + 1].op = "Create" /\ log[i + 1].kind = k
                ELSE ~PassOver
    /\ \A i \in 1..Len(log) :
         (log[i].op = "Get" /\ log[i].kind = k /\ log[i].res # ErrNotFound)
           => \A j \in 1..Len(log) : ~(log[j].op = "Create" /\ log[j].kind = k)
    /\ created[k] <= 1

\* A pass finds the deployment that an earlier pass created.
C5_Witness ==
  /\ pc = "done"
  /\ created["Deployment"] = 1
  /\ \E i \in 1..Len(log) : log[i] = LogEntry("Get", "Deployment", "apicast-" \o CRName, ErrNil, 0)
  /\ \A i \in 1..Len(log) : log[i].op # "Create"

\* ------------------------------------------------------------------------
\* C6. The ingress when the exposed host has no rule yet.
\* The state after an accepted Update of an ingress that had rules, none of
\* them for the exposed host.
IngressHostWasMissing ==
  /\ PassOver
  /\ Len(log) >= 1
  /\ LastCall.op = "Update" /\ LastCall.kind = "Ingress" /\ Accepted(LastCall)
  /\ Deref(observed["Ingress"]).Rules # <<>>
  /\ exposedHostIdx(Deref(observed["Ingress"]).Rules, Deref(APIcastCR.Spec.ExposedHost).Host) = -1

\* C6 as claimed: the stored ingress then holds the rules it had and the
\* rule of the exposed host.
C6_AdditiveHost ==
  IngressHostWasMissing
    => /\ SeqToSet(Deref(observed["Ingress"]).Rules) \subseteq SeqToSet(Deref(ingress).Rules)
       /\ \E r \in SeqToSet(Deref(ingress).Rules) : r.Host = Deref(APIcastCR.Spec.ExposedHost).Host

\* C6 as amended: the stored ingress then holds exactly the desired rules,
\* the one rule of the exposed host; the rules it had are gone.
C6_RulesReplaced ==
  IngressHostWasMissing
    => /\ Deref(ingress).Rules = Ingress(desiredAPIcast).Rules
       /\ Len(Deref(ingress).Rules) = 1
       /\ Deref(ingress).Rules[1].Host = Deref(APIcastCR.Spec.ExposedHost).Host
       /\ SeqToSet(Deref(observed["Ingress"]).Rules) \cap SeqToSet(Deref(ingress).Rules) = {}

\* The ingress had a rule for old.example.com, the exposed host is
\* new.example.com.
C6_Witness ==
  /\ IngressHostWasMissing
  /\ Deref(observed["Ingress"]).Rules[1].Host = OldHost
  /\ Deref(APIcastCR.Spec.ExposedHost).Host = NewHost

\* ------------------------------------------------------------------------
\* C7. Additive environment merge: after an accepted Update of the
\* deployment every desired variable is in the stored environment with the
\* desired value, under its name once; every variable the deployment had
\* under a name that is not desired is still there with its value; and the
\* environment set the changed flag exactly when a desired variable was
\* missing or had another value.
EnvNames(env) == {env[i].Name : i \in 1..Len(env)}

C7_AdditiveEnvMerge ==
  (PassOver /\ DeploymentUpdated)
    => LET before == Deref(observed["Deployment"]).Env
           after == Deref(deployment).Env
           desired == Deployment(desiredAPIcast).Env
       IN /\ \A d \in SeqToSet(desired) :
               /\ d \in SeqToSet(after)
               /\ Cardinality({i \in 1..Len(after) : after[i].Name = d.Name}) = 1
          /\ \A e \in SeqToSet(before) :
               e.Name \notin EnvNames(desired) => e \in SeqToSet(after)
          /\ EnvNames(after) = EnvNames(before) \cup EnvNames(desired)
          /\ ("Env" \in changedBy["Deployment"])
               <=> (\E d \in SeqToSet(desired) : d \notin SeqToSet(before))

\* The deployment had A=1 and another log level; both the kept and the
\* upserted variable are in the stored environment.
C7_Witness ==
  /\ PassOver /\ DeploymentUpdated
  /\ [Name |-> "A", Value |-> "1"] \in SeqToSet(Deref(observed["Deployment"]).Env)
  /\ "A" \notin EnvNames(Deployment(desiredAPIcast).Env)
  /\ [Name |-> "A", Value |-> "1"] \in SeqToSet(Deref(deployment).Env)
  /\ [Name |-> "APICAST_LOG_LEVEL", Value |-> "info"] \in SeqToSet(Deref(observed["Deployment"]).Env)
  /\ [Name |-> "APICAST_LOG_LEVEL", Value |-> "debug"] \in SeqToSet(Deref(deployment).Env)
  /\ "Env" \in changedBy["Deployment"]

\* ------------------------------------------------------------------------
\* C8. Exact-set replace: after an accepted Update of the deployment the
\* stored pod-template annotations, volumes and volume mounts are exactly
\* the desired ones.
C8_ExactSetReplace ==
  (PassOver /\ DeploymentUpdated)
    => LET desired == Deployment(desiredAPIcast)
       IN /\ Deref(deployment).Annotations = desired.Annotations
          /\ Deref(deployment).Volumes = desired.Volumes
          /\ Deref(deployment).VolumeMounts = desired.VolumeMounts

\* The deployment had volumes [gateway-configuration, v2], the desired
\* volumes are [gateway-configuration]; v2 and the stale annotation are gone.
C8_Witness ==
  /\ PassOver /\ DeploymentUpdated
  /\ Len(Deref(observed["Deployment"]).Volumes) = 2
  /\ Len(Deployment(desiredAPIcast).Volumes) = 1
  /\ Deref(deployment).Volumes = <<Deref(observed["Deployment"]).Volumes[1]>>
  /\ {"Annotations", "Volumes", "VolumeMounts"} \subseteq changedBy["Deployment"]
  /\ "example.com/stale" \in DOMAIN Deref(observed["Deployment"]).Annotations
  /\ "example.com/stale" \notin DOMAIN Deref(deployment).Annotations

\* ------------------------------------------------------------------------
\* C9. Missing-reference rejection: a pass on a resource whose admin-portal
\* reference has an empty name ends with the reference-incomplete error and
\* has issued no Create and no Update.
C9_MissingReferenceRejected ==
  (pc = "done" /\ APIcastCR.Spec.AdminPortalCredentialsRef = Some([Name |-> ""]))
    => /\ result = Result(FALSE, ErrReferenceIncomplete)
       /\ \A i \in 1..Len(log) : ~IsWrite(log[i])

\* ------------------------------------------------------------------------
\* C10. Secret validation precedes any secret write: a Get that reaches the
\* store for a referenced secret that is absent, lacks its key or (admin
\* portal) has a URL without an access token is the last store call of the
\* pass; the pass returns the error of the case, the secret is not written
\* and has no owner reference, and the pass has written no deployment,
\* service or ingress.
AdmSecretError(s) ==
  IF IsNil(s) THEN ErrNotFound
  ELSE IF AdminPortalURLAttributeName \notin DOMAIN Deref(s).Data THEN ErrKeyMissing
  ELSE IF Deref(s).Data[AdminPortalURLAttributeName] \in {URLNoUser, URLEmptyUser}
    THEN ErrAccessToken
  ELSE ErrNil

CfgSecretError(s) ==
  IF IsNil(s) THEN ErrNotFound
  ELSE IF EmbeddedConfigurationSecretKey \notin DOMAIN Deref(s).Data THEN ErrKeyMissing
  ELSE ErrNil

SecretError(name) ==
  IF name = AdmSecretName THEN AdmSecretError(secrets[name]) ELSE CfgSecretError(secrets[name])

C10_ValidationBeforeWrite ==
  \A i \in 1..Len(log) :
    (log[i].op = "Get" /\ log[i].kind = "Secret" /\ log[i].res # ErrIO
       /\ SecretError(log[i].name) # ErrNil)
      => /\ i = Len(log)
         /\ PassOver
         /\ result = Result(FALSE, SecretError(log[i].name))
         /\ \A j \in 1..Len(log) :
              ~(IsWrite(log[j]) /\ (log[j].kind \in Kinds \/ log[j].name = log[i].name))
         /\ ~IsNil(secrets[log[i].name])
              => /\ Deref(secrets[log[i].name]).OwnerReferences = <<>>
                 /\ Deref(secrets[log[i].name]).ResourceVersion = 1

\* The admin secret was read, its URL has no user-info, and the pass ended
\* with the access-token error.
C10_Witness ==
  /\ pc = "done"
  /\ Len(log) = 1
  /\ log[1] = LogEntry("Get", "Secret", AdmSecretName, ErrNil, 0)
  /\ AdminPortalURLAttributeName \in DOMAIN Deref(secrets[AdmSecretName]).Data
  /\ Deref(secrets[AdmSecretName]).Data[AdminPortalURLAttributeName] = URLNoUser
  /\ result = Result(FALSE, ErrAccessToken)

\* ------------------------------------------------------------------------
\* C11. No lost update under concurrent external mutation: when another
\* client has written a deployment, ingress, secret or the APIcast resource
\* between the reconciler's Get and its Update of that object, the store
\* answers the Update with a conflict, the stored object stays as the other
\* client wrote it, and the pass ends with that error, without a re-queue
\* flag and without any later write.
\* The reconciler is about to update an object whose stored resource version
\* is no longer the one it read.
StaleUpdate ==
  \/ /\ pc = "initialize"
     /\ applyInitialization(APIcastCR).appliedInitialization
     /\ cr.ResourceVersion # APIcastCR.ResourceVersion
  \/ /\ pc = "updateAdminPortalCredentials"
     /\ Deref(secrets[AdmSecretName]).ResourceVersion # Deref(secretObj).ResourceVersion
  \/ /\ pc = "updateGatewayEmbbededConfig"
     /\ Deref(secrets[CfgSecretName]).ResourceVersion # Deref(secretObj).ResourceVersion
  \/ /\ pc = "updateDeployment"
     /\ Deref(deployment).ResourceVersion # Deref(existingDeployment).ResourceVersion
  \/ /\ pc = "updateIngress"
     /\ Deref(ingress).ResourceVersion # Deref(existingIngress).ResourceVersion

C11_NoLostUpdate ==
  /\ [][(StaleUpdate /\ pc' # pc) =>
          /\ UNCHANGED storeVars
          /\ pc' = "done"
          /\ result' = Result(FALSE, ErrConflict)
          /\ Len(log') = Len(log) + 1
          /\ log'[Len(log')].op = "Update"
          /\ log'[Len(log')].res = ErrConflict]_vars
  /\ [](\A i \in 1..Len(log) : log[i].res = ErrConflict => (i = Len(log) /\ PassOver))

\* A pass that ended on the conflict of its deployment Update, the stored
\* deployment being the one the autoscaler wrote.
C11_Witness ==
  /\ pc = "done"
  /\ Len(log) > 0
  /\ LastCall.op = "Update" /\ LastCall.kind = "Deployment" /\ LastCall.res = ErrConflict
  /\ result = Result(FALSE, ErrConflict)
  /\ Deref(deployment).Replicas = ScaledReplicas
  /\ externals >= 1

\* The resources of CRs scaled to zero by their user.
ScaledToZeroCRs == {[a EXCEPT !.Spec.Replicas = Some(0)] : a \in CRs}

\* ------------------------------------------------------------------------
\* Repeated invocation. The controller calls Reconcile again and again; the
\* runs start from any store state in which the referenced secrets pass the
\* resolver's validation, and meet no I/O error and no other writer.
InitConv ==
  /\ cr \in {a \in CRs \cup ScaledToZeroCRs :
               /\ a.Spec.AdminPortalCredentialsRef \in {None, Some([Name |-> AdmSecretName])}
               /\ a.Spec.EmbeddedConfigurationSecretRef \in {None, Some([Name |-> CfgSecretName])}}
  /\ secrets \in {s \in [SecretNames -> AdmSecrets \cup CfgSecrets \cup
                                          {Some(Secret(CfgSecretName, CfgData, <<OtherOwner>>))}] :
        /\ s[AdmSecretName] \in
             IF IsNil(cr.Spec.AdminPortalCredentialsRef) THEN {None}
             ELSE {Some(Secret(AdmSecretName, AdmData(URLWithToken), owners)) :
                     owners \in {<<>>, <<Owner>>, <<OtherOwner>>}}
        /\ s[CfgSecretName] \in
             IF IsNil(cr.Spec.EmbeddedConfigurationSecretRef) THEN {None}
             ELSE {Some(Secret(CfgSecretName, CfgData, owners)) :
                     owners \in {<<>>, <<Owner>>, <<OtherOwner>>}}}
  /\ deployment \in {None, Some(OldDeployment)}
  /\ service = IF IsNil(deployment) THEN None ELSE Some(OldService)
  /\ ingress \in IF IsNil(cr.Spec.ExposedHost) THEN {None}
                 ELSE {None, Some(IngressOldHost), Some(IngressBothHosts)}
  /\ limits = [passes |-> MaxConvPasses, faults |-> 0, externals |-> 0]
  /\ Fresh

SpecConv == InitConv /\ [][Next]_vars /\ WF_vars(Next)

\* A referenced secret carries a controller reference to another owner.
ForeignControlled ==
  \E name \in SecretNames :
    /\ ~IsNil(secrets[name])
    /\ \E i \in 1..Len(Deref(secrets[name]).OwnerReferences) :
         LET ref == Deref(secrets[name]).OwnerReferences[i]
         IN ref.Controller /\ ~referSameObject(ref, asOwner(cr))

PassDone == Result(FALSE, ErrNil)
PassRequeue == Result(TRUE, ErrNil)

\* The passes so far: no error, at most three re-queues, all of them before
\* the first done pass.
RequeuesThenDone ==
  /\ \A i \in 1..Len(history) : history[i] \in {PassDone, PassRequeue}
  /\ \A i \in 1..Len(history) : history[i] = PassRequeue => i <= 3
  /\ \A i, j \in 1..Len(history) : (i < j /\ history[i] = PassDone) => history[j] = PassDone

SomePassDone == \E i \in 1..Len(history) : history[i] = PassDone

ChildrenExist ==
  /\ ~IsNil(deployment)
  /\ ~IsNil(service)
  /\ ~IsNil(cr.Spec.ExposedHost) => ~IsNil(ingress)

\* C12 as stated. Convergence: from any store state with an APIcast resource
\* and valid referenced secrets, with no store error and no other writer,
\* repeated Reconcile returns re-queue at most three times and then done;
\* from that pass on the deployment and the service exist, and the ingress
\* exists when an exposed host is set.
C12_Convergence ==
  /\ [](RequeuesThenDone /\ (SomePassDone => ChildrenExist))
  /\ <>SomePassDone

\* C12. Convergence when no referenced secret is controlled by another
\* owner: repeated Reconcile returns re-queue at most three times (default
\* fill, admin secret owner reference, config secret owner reference), then
\* done, and from the first done pass on the deployment and the service
\* exist, and the ingress exists when an exposed host is set.
C12_ConvergenceOwnSecrets ==
  /\ [](~ForeignControlled => (RequeuesThenDone /\ (SomePassDone => ChildrenExist)))
  /\ <>(ForeignControlled \/ SomePassDone)

\* Three re-queues, one for each of the three writes, and then a done pass.
C12_Witness ==
  /\ ~ForeignControlled
  /\ Len(history) = 4
  /\ \A i \in 1..3 : history[i] = PassRequeue
  /\ history[4] = PassDone
  /\ ChildrenExist

\* ------------------------------------------------------------------------
\* C13. Stage ordering within a pass: the store calls come in the order
\* initialization, admin-portal secret, embedded-config secret, deployment,
\* service, ingress; no call on the deployment is issued before both secret
\* resolutions ended without error and without a write, the service is
\* touched only after the deployment driver returned without error, and the
\* ingress only after the service driver returned without error.
StageRank(e) ==
  CASE e.kind = "APIcast" -> 1
    [] e.kind = "Secret" /\ e.name = AdmSecretName -> 2
    [] e.kind = "Secret" -> 3
    [] e.kind = "Deployment" -> 4
    [] e.kind = "Service" -> 5
    [] OTHER -> 6

\* The driver of the kind has been through before call j of the log, and
\* without error: it got the object, or did not find it and created it, and
\* every call it made was accepted.
DriverReturnedBefore(kind, j) ==
  /\ \E i \in 1..(j - 1) : log[i].kind = kind
  /\ \A i \in 1..(j - 1) :
       log[i].kind = kind =>
         /\ ~Failed(log[i])
         /\ (log[i].op = "Get" /\ log[i].res = ErrNotFound) =>
              \E k \in (i + 1)..(j - 1) :
                log[k].kind = kind /\ log[k].op = "Create" /\ Accepted(log[k])

\* Both secret stages are through, each with its secret resolved when one is
\* referenced.
SecretsResolved ==
  /\ IsNil(APIcastCR.Spec.AdminPortalCredentialsRef) =
       IsNil(userProvidedSecrets.adminPortalCredentialsSecret)
  /\ IsNil(APIcastCR.Spec.EmbeddedConfigurationSecretRef) =
       IsNil(userProvidedSecrets.gatewayEmbeddedConfigSecret)
  /\ AdmSecretError(userProvidedSecrets.adminPortalCredentialsSecret) \in {ErrNil, ErrNotFound}
  /\ CfgSecretError(userProvidedSecrets.gatewayEmbeddedConfigSecret) \in {ErrNil, ErrNotFound}

C13_StageOrdering ==
  /\ \A i, j \in 1..Len(log) : i < j => StageRank(log[i]) <= StageRank(log[j])
  /\ \A j \in 1..Len(log) :
       /\ log[j].kind = "Deployment" =>
            /\ SecretsResolved
            /\ \A i \in 1..(j - 1) :
                 log[i].kind \in {"APIcast", "Secret"} => (log[i].op = "Get" /\ Accepted(log[i]))
       /\ log[j].kind = "Service" => DriverReturnedBefore("Deployment", j)
       /\ log[j].kind = "Ingress" =>
            (DriverReturnedBefore("Deployment", j) /\ DriverReturnedBefore("Service", j))

\* A pass that read both secrets, updated the deployment, created the service
\* and got the ingress.
C13_Witness ==
  /\ Len(log) = 7
  /\ log[1].kind = "Secret" /\ log[1].name = AdmSecretName
  /\ log[2].kind = "Secret" /\ log[2].name = CfgSecretName
  /\ log[3].kind = "Deployment" /\ log[3].op = "Get"
  /\ log[4].kind = "Deployment" /\ log[4].op = "Update"
  /\ log[5].kind = "Service" /\ log[5].op = "Get"
  /\ log[6].kind = "Ingress" /\ log[6].op = "Get"
  /\ log[7].kind = "Ingress" /\ log[7].op = "Update"

\* ------------------------------------------------------------------------
\* C14. Secret-version annotations: after a pass in which the deployment
\* driver succeeded, the stored deployment's pod-template annotations carry
\* the admin-portal key exactly when an admin-portal secret is referenced
\* and the config key exactly when an embedded-config secret is referenced,
\* each with the resource version of that secret as the pass read it; so a
\* secret whose resource version changed between two passes makes the later
\* pass update the pod template.
DeploymentDriverSucceeded ==
  /\ pc \notin {"createDeployment", "updateDeployment"}
  /\ DriverReturnedBefore("Deployment", Len(log) + 1)

\* The deployment as the pass got it carries another version of a secret
\* than the pass read.
SecretVersionChanged ==
  /\ ~IsNil(observed["Deployment"])
  /\ \/ /\ ~IsNil(userProvidedSecrets.adminPortalCredentialsSecret)
        /\ AdmPortalSecretResverAnnotation \in DOMAIN Deref(observed["Deployment"]).Annotations
        /\ Deref(observed["Deployment"]).Annotations[AdmPortalSecretResverAnnotation]
             # Deref(userProvidedSecrets.adminPortalCredentialsSecret).ResourceVersion
     \/ /\ ~IsNil(userProvidedSecrets.gatewayEmbeddedConfigSecret)
        /\ GatewayConfigurationSecretResverAnnotation
             \in DOMAIN Deref(observed["Deployment"]).Annotations
        /\ Deref(observed["Deployment"]).Annotations[GatewayConfigurationSecretResverAnnotation]
             # Deref(userProvidedSecrets.gatewayEmbeddedConfigSecret).ResourceVersion

C14_SecretVersionAnnotations ==
  DeploymentDriverSucceeded =>
    LET annotations == Deref(deployment).Annotations
    IN /\ (AdmPortalSecretResverAnnotation \in DOMAIN annotations)
            = ~IsNil(APIcastCR.Spec.AdminPortalCredentialsRef)
       /\ (GatewayConfigurationSecretResverAnnotation \in DOMAIN annotations)
            = ~IsNil(APIcastCR.Spec.EmbeddedConfigurationSecretRef)
       /\ AdmPortalSecretResverAnnotation \in DOMAIN annotations =>
            annotations[AdmPortalSecretResverAnnotation]
              = Deref(userProvidedSecrets.adminPortalCredentialsSecret).ResourceVersion
       /\ GatewayConfigurationSecretResverAnnotation \in DOMAIN annotations =>
            annotations[GatewayConfigurationSecretResverAnnotation]
              = Deref(userProvidedSecrets.gatewayEmbeddedConfigSecret).ResourceVersion
       /\ SecretVersionChanged =>
            ("Annotations" \in changedBy["Deployment"] /\ DeploymentUpdated)

\* The config secret was written again after the pass that created the
\* deployment; the next pass has put the new version on the pod template.
C14_Witness ==
  /\ DeploymentDriverSucceeded
  /\ SecretVersionChanged
  /\ GatewayConfigurationSecretResverAnnotation \in DOMAIN Deref(observed["Deployment"]).Annotations
  /\ Deref(observed["Deployment"]).Annotations[GatewayConfigurationSecretResverAnnotation] = 1
  /\ Deref(deployment).Annotations[GatewayConfigurationSecretResverAnnotation] = 2

\* ------------------------------------------------------------------------
\* C15. Scalar fields are forced to the desired value: after
\* reconcileDeployment succeeded on an existing deployment, the stored
\* replica count, first-container image and service account name are the
\* desired ones; a replica count an autoscaler set on the deployment is
\* overwritten with the APIcast resource's by the next successful pass.
\* The stored deployment is as the driver of this pass left it: got and, when
\* updated, not written since.
DeploymentAsDriverLeftIt ==
  /\ DeploymentDriverSucceeded
  /\ ~IsNil(observed["Deployment"])
  /\ IF DeploymentUpdated
       THEN \E i \in 1..Len(log) :
              /\ log[i].op = "Update" /\ log[i].kind = "Deployment"
              /\ log[i].rv = Deref(deployment).ResourceVersion
       ELSE deployment = observed["Deployment"]

C15_ScalarsForced ==
  DeploymentAsDriverLeftIt =>
    /\ Deref(deployment).Replicas = Deref(APIcastCR.Spec.Replicas)
    /\ Deref(deployment).Image =
         (IF IsNil(APIcastCR.Spec.Image) THEN DefaultImageVersion
          ELSE Deref(APIcastCR.Spec.Image))
    /\ Deref(deployment).ServiceAccountName =
         (IF IsNil(APIcastCR.Spec.ServiceAccount) THEN "default"
          ELSE Deref(APIcastCR.Spec.ServiceAccount))

\* The pass got the deployment as the autoscaler and the user left it and
\* put the three fields back.
C15_Witness ==
  /\ DeploymentAsDriverLeftIt
  /\ Deref(observed["Deployment"]).Replicas = ScaledReplicas
  /\ Deref(observed["Deployment"]).ServiceAccountName = "builder"
  /\ Deref(observed["Deployment"]).Image # DefaultImageVersion
  /\ Deref(deployment).Replicas = 2
  /\ Deref(deployment).ServiceAccountName = "default"
  /\ Deref(deployment).Image = DefaultImageVersion

\* ------------------------------------------------------------------------
\* C16. Unmanaged fields are preserved: an Update issued by
\* reconcileDeployment or reconcileIngress writes the object as it was read,
\* changed only in the fields the driver manages (deployment: replica count,
\* image, service account name, environment, pod-template annotations,
\* volumes, volume mounts; ingress: rules and TLS); every other field,
\* edits of users and other controllers included, is after the Update what
\* it was before.
ManagedFields(kind) ==
  IF kind = "Deployment"
    THEN {"Replicas", "Image", "ServiceAccountName", "Env", "Annotations", "Volumes",
          "VolumeMounts"}
    ELSE {"Rules", "TLS"}

\* The fields of the object that the driver of the kind does not manage (the
\* resource version is the store's).
Unmanaged(kind, obj) ==
  [f \in (DOMAIN obj \ (ManagedFields(kind) \cup {"ResourceVersion"})) |-> obj[f]]

C16_UnmanagedPreserved ==
  [][/\ (pc = "updateDeployment" /\ pc' # pc /\ deployment' # deployment) =>
          /\ Unmanaged("Deployment", Deref(deployment')) = Unmanaged("Deployment", Deref(deployment))
          /\ Unmanaged("Deployment", Deref(deployment'))
               = Unmanaged("Deployment", Deref(observed["Deployment"]))
     /\ (pc = "updateIngress" /\ pc' # pc /\ ingress' # ingress) =>
          /\ Unmanaged("Ingress", Deref(ingress')) = Unmanaged("Ingress", Deref(ingress))
          /\ Unmanaged("Ingress", Deref(ingress'))
               = Unmanaged("Ingress", Deref(observed["Ingress"]))]_vars

\* A pass has updated the deployment a user had labelled and the ingress a
\* user had annotated; the label and the annotation are still there.
C16_Witness ==
  /\ DeploymentUpdated
  /\ \E i \in 1..Len(log) : log[i].op = "Update" /\ log[i].kind = "Ingress" /\ Accepted(log[i])
  /\ [Name |-> "edited-by", Value |-> "user"] \in SeqToSet(Deref(observed["Deployment"]).Labels)
  /\ [Name |-> "edited-by", Value |-> "user"] \in SeqToSet(Deref(deployment).Labels)
  /\ [Name |-> "edited-by", Value |-> "user"] \in SeqToSet(Deref(observed["Ingress"]).Annotations)
  /\ [Name |-> "edited-by", Value |-> "user"] \in SeqToSet(Deref(ingress).Annotations)

\* ------------------------------------------------------------------------
\* C17. Ingress rules untouched when the host is present: when the existing
\* ingress has a rule for the exposed host, reconcileIngress leaves the whole
\* rule list as it is (the rules of other hosts and the content of the
\* matching rule, also where it differs from the desired rule) and issues
\* an Update only when the TLS block differs from the desired one.
\* The ingress the pass got has a rule for the exposed host.
IngressHostPresent ==
  /\ ~IsNil(observed["Ingress"])
  /\ \E i \in 1..Len(Deref(observed["Ingress"]).Rules) :
       Deref(observed["Ingress"]).Rules[i].Host = Deref(APIcastCR.Spec.ExposedHost).Host

IngressUpdateIssued == \E i \in 1..Len(log) : log[i].op = "Update" /\ log[i].kind = "Ingress"

C17_RulesUntouchedWhenHostPresent ==
  IngressHostPresent =>
    LET tlsDiffers == Deref(observed["Ingress"]).TLS # Deref(APIcastCR.Spec.ExposedHost).TLS
    IN /\ "Rules" \notin changedBy["Ingress"]
       /\ ~IsNil(existingIngress) => Deref(existingIngress).Rules = Deref(observed["Ingress"]).Rules
       /\ Deref(ingress).Rules = Deref(observed["Ingress"]).Rules
       /\ (pc = "updateIngress" \/ IngressUpdateIssued) => tlsDiffers
       /\ (PassOver /\ result = PassDone) => (tlsDiffers = IngressUpdateIssued)

\* The ingress had the exposed host's rule with another backend, next to the
\* rule of another host, and an old TLS block: the pass updated the TLS
\* block and the two rules are as they were.
C17_Witness ==
  /\ IngressHostPresent
  /\ IngressUpdateIssued /\ Accepted(LastCall)
  /\ Deref(observed["Ingress"]) = IngressBothHosts
  /\ Deref(ingress).Rules = IngressBothHosts.Rules
  /\ Deref(ingress).TLS = <<>>

\* ------------------------------------------------------------------------
\* C18. Service is existence-only: when the service exists in the store,
\* reconcileService issues no Create and no Update, whatever the difference
\* between the existing and the desired service; the stored service is
\* unchanged by any number of passes.
ServiceFound ==
  \E i \in 1..Len(log) : log[i].op = "Get" /\ log[i].kind = "Service" /\ Accepted(log[i])

C18_ServiceExistenceOnly ==
  /\ [](ServiceFound =>
          /\ \A i \in 1..Len(log) : log[i].kind = "Service" => ~IsWrite(log[i])
          /\ service = observed["Service"])
  /\ [][~IsNil(service) => service' = service]_vars

\* Two passes have returned done on a store whose service differs from the
\* desired one in its selector and its ports; it is still that service.
C18_Witness ==
  /\ Len(history) >= 2
  /\ history[1] = PassDone /\ history[2] = PassDone
  /\ ServiceFound
  /\ service = Some(OldService)
  /\ OldService.Selector # Service(desiredAPIcast).Selector
  /\ OldService.Ports # Service(desiredAPIcast).Ports

\* ------------------------------------------------------------------------
\* C19. Ingress only with an exposed host: a pass on an APIcast resource
\* without exposed host issues no Get, Create or Update on an ingress; an
\* ingress is created only by a pass whose resource has an exposed host.
C19_IngressOnlyWithExposedHost ==
  /\ [](IsNil(APIcastCR.Spec.ExposedHost) =>
          /\ \A i \in 1..Len(log) : log[i].kind # "Ingress"
          /\ pc \notin {"reconcileIngress", "createIngress", "updateIngress"})
  /\ [][(IsNil(ingress) /\ ~IsNil(ingress')) =>
          (pc = "createIngress" /\ ~IsNil(APIcastCR.Spec.ExposedHost))]_vars

\* A pass without exposed host went through the deployment and the service
\* drivers and returned done; the store has no ingress.
C19_Witness ==
  /\ IsNil(APIcastCR.Spec.ExposedHost)
  /\ pc = "done" /\ result = PassDone
  /\ DriverReturnedBefore("Service", Len(log) + 1)
  /\ IsNil(ingress)

\* ------------------------------------------------------------------------
\* APIcastFromCRContents: the desired state for a caller outside the
\* reconciler. The secrets are got, the config secret first, and not
\* reconciled; initialize is not called.
ErrNilDereference == "panic: runtime error: invalid memory address or nil pointer dereference"

\* A caller builds a reconciler on the resource as the store has it and calls
\* APIcastFromCRContents.
CallAPIcastFromCRContents ==
  /\ pc = "idle"
  /\ Len(inspected) < MaxInspects
  /\ pc' = "APIcastFromCRContents"
  /\ APIcastCR' = cr
  /\ userProvidedSecrets' = [adminPortalCredentialsSecret |-> None,
                             gatewayEmbeddedConfigSecret |-> None]
  /\ secretObj' = None
  /\ existingDeployment' = None
  /\ existingIngress' = None
  /\ changedBy' = [k \in {"Deployment", "Ingress"} |-> {}]
  /\ observed' = [k \in Kinds |-> None]
  /\ result' = Result(FALSE, ErrNil)
  /\ log' = <<>>
  /\ UNCHANGED <<limits, externals, inspected, storeVars, history, faults, created>>

\* The embedded configuration secret.
APIcastFromCRContents ==
  /\ pc = "APIcastFromCRContents"
  /\ \E fault \in FaultChoices :
       LET got == IF IsNil(APIcastCR.Spec.EmbeddedConfigurationSecretRef)
                    THEN [secret |-> None, err |-> ErrNil, calls |-> <<>>]
                    ELSE getGatewayEmbeddedConfigSecret(APIcastCR, secrets, fault)
       IN /\ fault => got.calls # <<>>
          /\ log' = log \o got.calls
          /\ faults' = faults + Hit(fault)
          /\ IF got.err # ErrNil
               THEN /\ pc' = "returned"
                    /\ result' = Result(FALSE, got.err)
                    /\ UNCHANGED userProvidedSecrets
               ELSE /\ pc' = "APIcastFromCRContentsAdminPortal"
                    /\ userProvidedSecrets' =
                         [userProvidedSecrets EXCEPT !.gatewayEmbeddedConfigSecret = got.secret]
                    /\ UNCHANGED result
  /\ UNCHANGED <<limits, externals, inspected, storeVars, APIcastCR, secretObj, existingDeployment,
                 existingIngress, changedBy, observed, history, created>>

\* APIcastFromCRContents reconciling the admin portal secret as Reconcile
\* does: the owner reference is set and the secret updated.
APIcastFromCRContentsAdminPortalReconciling ==
  /\ pc = "APIcastFromCRContentsAdminPortal"
  /\ \E fault \in FaultChoices :
       LET got == IF IsNil(APIcastCR.Spec.AdminPortalCredentialsRef)
                    THEN [secret |-> None, err |-> ErrNil, calls |-> <<>>]
                    ELSE getAdminPortalCredentialsSecret(APIcastCR, secrets, fault)
           own == IF got.err = ErrNil /\ ~IsNil(got.secret)
                    THEN ensureOwnerReference(APIcastCR, Deref(got.secret))
                    ELSE [obj |-> None, changed |-> FALSE, err |-> got.err]
           ups == [userProvidedSecrets EXCEPT !.adminPortalCredentialsSecret = got.secret]
       IN /\ fault => got.calls # <<>>
          /\ faults' = faults + Hit(fault)
          /\ pc' = "returned"
          /\ IF own.err = ErrNil /\ own.changed
               THEN /\ secrets' = [secrets EXCEPT ![own.obj.Name] = Some(Written(own.obj))]
                    /\ log' = log \o got.calls \o
                                <<LogEntry("Update", "Secret", own.obj.Name, ErrNil,
                                           Written(own.obj).ResourceVersion)>>
               ELSE /\ secrets' = secrets
                    /\ log' = log \o got.calls
          /\ IF own.err # ErrNil
               THEN /\ result' = Result(FALSE, own.err)
                    /\ UNCHANGED <<userProvidedSecrets, inspected>>
               ELSE /\ userProvidedSecrets' = ups
                    /\ IF IsNil(APIcastCR.Spec.Replicas)
                         THEN /\ result' = Result(FALSE, ErrNilDereference)
                              /\ UNCHANGED inspected
                         ELSE /\ result' = Result(FALSE, ErrNil)
                              /\ inspected' = Append(inspected,
                                   [cr |-> APIcastCR, userProvidedSecrets |-> ups,
                                    apicast |-> internalAPIcast(APIcastCR, ups)])
  /\ UNCHANGED <<limits, externals, cr, deployment, service, ingress, APIcastCR, secretObj,
                 existingDeployment, existingIngress, changedBy, observed, history, created>>

\* APIcastFromCRContents stamping the desired state with the number of
\* passes the controller has run.
APIcastFromCRContentsAdminPortalStamping ==
  /\ pc = "APIcastFromCRContentsAdminPortal"
  /\ \E fault \in FaultChoices :
       LET got == IF IsNil(APIcastCR.Spec.AdminPortalCredentialsRef)
                    THEN [secret |-> None, err |-> ErrNil, calls |-> <<>>]
                    ELSE getAdminPortalCredentialsSecret(APIcastCR, secrets, fault)
           ups == [userProvidedSecrets EXCEPT !.adminPortalCredentialsSecret = got.secret]
       IN /\ fault => got.calls # <<>>
          /\ log' = log \o got.calls
          /\ faults' = faults + Hit(fault)
          /\ pc' = "returned"
          /\ IF got.err # ErrNil
               THEN /\ result' = Result(FALSE, got.err)
                    /\ UNCHANGED <<userProvidedSecrets, inspected>>
               ELSE /\ userProvidedSecrets' = ups
                    /\ IF IsNil(APIcastCR.Spec.Replicas)
                         THEN /\ result' = Result(FALSE, ErrNilDereference)
                              /\ UNCHANGED inspected
                         ELSE /\ result' = Result(FALSE, ErrNil)
                              /\ inspected' = Append(inspected,
                                   [cr |-> APIcastCR, userProvidedSecrets |-> ups,
                                    apicast |-> [internalAPIcast(APIcastCR, ups) EXCEPT
                                                   !.AppLabel = IF Len(history) = 0 THEN @
                                                                ELSE "apicast-reconciled"]])
  /\ UNCHANGED <<limits, externals, storeVars, APIcastCR, secretObj, existingDeployment,
                 existingIngress, changedBy, observed, history, created>>

\* The admin portal secret, and the desired state built from the resource
\* and the two secrets. internalAPIcast reads *Spec.Replicas: on a resource
\* whose replica count is unset the call panics.
APIcastFromCRContentsAdminPortal ==
  /\ pc = "APIcastFromCRContentsAdminPortal"
  /\ \E fault \in FaultChoices :
       LET got == IF IsNil(APIcastCR.Spec.AdminPortalCredentialsRef)
                    THEN [secret |-> None, err |-> ErrNil, calls |-> <<>>]
                    ELSE getAdminPortalCredentialsSecret(APIcastCR, secrets, fault)
           ups == [userProvidedSecrets EXCEPT !.adminPortalCredentialsSecret = got.secret]
       IN /\ fault => got.calls # <<>>
          /\ log' = log \o got.calls
          /\ faults' = faults + Hit(fault)
          /\ pc' = "returned"
          /\ IF got.err # ErrNil
               THEN /\ result' = Result(FALSE, got.err)
                    /\ UNCHANGED <<userProvidedSecrets, inspected>>
               ELSE /\ userProvidedSecrets' = ups
                    /\ IF IsNil(APIcastCR.Spec.Replicas)
                         THEN /\ result' = Result(FALSE, ErrNilDereference)
                              /\ UNCHANGED inspected
                         ELSE /\ result' = Result(FALSE, ErrNil)
                              /\ inspected' = Append(inspected,
                                   [cr |-> APIcastCR, userProvidedSecrets |-> ups,
                                    apicast |-> internalAPIcast(APIcastCR, ups)])
  /\ UNCHANGED <<limits, externals, storeVars, APIcastCR, secretObj, existingDeployment,
                 existingIngress, changedBy, observed, history, created>>

\* The call is over; its result is not a pass of the controller.
ReturnAPIcastFromCRContents ==
  /\ pc = "returned"
  /\ pc' = "idle"
  /\ UNCHANGED <<limits, externals, inspected, storeVars, APIcastCR, userProvidedSecrets, secretObj,
                 existingDeployment, existingIngress, changedBy, observed, result, log, history,
                 faults, created>>

NextInspect ==
  \/ Next
  \/ CallAPIcastFromCRContents
  \/ APIcastFromCRContents
  \/ APIcastFromCRContentsAdminPortal
  \/ ReturnAPIcastFromCRContents

SpecInspect == Init /\ [][NextInspect]_vars

\* ------------------------------------------------------------------------
\* C20. Read-only inspect path: APIcastFromCRContents issues only Gets, on
\* the referenced secrets, and never a Create or an Update, also when a
\* referenced secret lacks the owner reference to the APIcast resource; the
\* store is after the call what it was before, whether the call succeeds or
\* fails.
InInspect == pc \in {"APIcastFromCRContents", "APIcastFromCRContentsAdminPortal", "returned"}

C20_InspectReadOnly ==
  /\ [](InInspect =>
          \A i \in 1..Len(log) :
            /\ log[i].op = "Get" /\ log[i].kind = "Secret"
            /\ \/ APIcastCR.Spec.AdminPortalCredentialsRef = Some([Name |-> log[i].name])
               \/ APIcastCR.Spec.EmbeddedConfigurationSecretRef = Some([Name |-> log[i].name]))
  /\ [][(InInspect \/ InInspect') => UNCHANGED storeVars]_vars

\* A call has returned the desired state after two Gets; the admin portal
\* secret still has no owner reference.
C20_Witness ==
  /\ pc = "returned"
  /\ result = Result(FALSE, ErrNil)
  /\ ~IsNil(inspected)
  /\ Len(log) = 2
  /\ log[1].name = CfgSecretName /\ log[2].name = AdmSecretName
  /\ Deref(secrets[AdmSecretName]).OwnerReferences = <<>>
  /\ Len(history) = 0

\* ------------------------------------------------------------------------
\* C21. The APIcast resource is only default-filled: across any sequence of
\* passes the only write to the resource is the initialization Update that
\* sets an unset replica count to 1; a resource whose replica count is set,
\* 0 included, is never written, and no pass issues a delete on any object.
C21_OnlyDefaultFilled ==
  /\ [][cr' # cr =>
          /\ pc = "initialize"
          /\ IsNil(cr.Spec.Replicas)
          /\ cr' = Written([cr EXCEPT !.Spec.Replicas = Some(1)])]_vars
  /\ [](\A i \in 1..Len(log) :
          /\ log[i].op \in {"Get", "Create", "Update"}
          /\ log[i].kind = "APIcast" => (log[i].op = "Update" /\ i = 1))

\* Two passes are over on a resource scaled to zero: it is as its user wrote
\* it, and the deployment has no replica.
C21_Witness ==
  /\ Len(history) >= 2
  /\ history[Len(history)] = PassDone
  /\ cr.Spec.Replicas = Some(0)
  /\ cr.ResourceVersion = 1
  /\ ~IsNil(deployment)
  /\ Deref(deployment).Replicas = 0

BuilderReached ==
  pc \in {"reconcileDeployment", "createDeployment", "updateDeployment", "reconcileService",
          "createService", "reconcileIngress", "createIngress", "updateIngress"}

C23_ReplicasSetAtBuilder ==
  /\ BuilderReached => ~IsNil(APIcastCR.Spec.Replicas)
  /\ result.err # ErrNilDereference

\* ------------------------------------------------------------------------
\* The secrets that carry a controller reference to another owner.
ForeignSecrets ==
  {name \in SecretNames :
     /\ ~IsNil(secrets[name])
     /\ \E i \in 1..Len(Deref(secrets[name]).OwnerReferences) :
          LET ref == Deref(secrets[name]).OwnerReferences[i]
          IN ref.Controller /\ ~referSameObject(ref, asOwner(cr))}

PassAlreadyOwned == Result(FALSE, ErrAlreadyOwned)

\* No call of the pass is on a deployment, a service or an ingress, and none
\* is an Update of a secret controlled by another owner.
NoChildCallNoForeignUpdate ==
  \A i \in 1..Len(log) :
    /\ log[i].kind \notin Kinds
    /\ (log[i].kind = "Secret" /\ log[i].name \in ForeignSecrets) => log[i].op = "Get"

C25_StaleIngressKept ==
  /\ []((pc # "idle" /\ IsNil(APIcastCR.Spec.ExposedHost)) =>
          \A i \in 1..Len(log) : log[i].kind # "Ingress")
  /\ [](created["Ingress"] >= 1 => ~IsNil(ingress))
  /\ [][(pc' # pc /\ IsNil(APIcastCR'.Spec.ExposedHost)) => ingress' = ingress]_vars

\* A pass created the ingress, the user withdrew the host, and the next pass
\* returned done: the ingress of the withdrawn host is still in the store.
C25_Witness ==
  /\ created["Ingress"] = 1
  /\ IsNil(cr.Spec.ExposedHost)
  /\ IsNil(APIcastCR.Spec.ExposedHost)
  /\ pc = "done" /\ result = PassDone
  /\ Len(history) >= 1
  /\ ~IsNil(ingress)
  /\ Deref(ingress).Rules = <<[Host |-> NewHost, Backend |-> "apicast-" \o CRName]>>

\* ------------------------------------------------------------------------
\* C26. Exactly one outcome per pass: every pass ends done (no re-queue, no
\* error), re-queue (re-queue flag, no error) or error (error, no re-queue
\* flag); the re-queue flag never comes with an error, also when the Update
\* that persists a default or a secret's owner reference fails after the
\* object was changed in memory.
OneOutcome(r) ==
  \/ r = PassDone
  \/ r = PassRequeue
  \/ (r.err # ErrNil /\ ~r.Requeue)

C26_ExactlyOneOutcome ==
  /\ \A i \in 1..Len(history) : OneOutcome(history[i])
  /\ pc = "done" =>
       /\ OneOutcome(result)
       /\ (Len(log) > 0 /\ Failed(LastCall)) => (result.err = LastCall.res /\ ~result.Requeue)
       /\ result = PassRequeue =>
            (Len(log) > 0 /\ LastCall.op = "Update" /\ Accepted(LastCall))

\* The Update of the secret that had got its owner reference in memory
\* failed: the pass returned the error, without the re-queue flag.
C26_Witness ==
  /\ pc = "done"
  /\ Len(log) > 0
  /\ LastCall.op = "Update" /\ LastCall.kind = "Secret" /\ LastCall.res = ErrIO
  /\ result = Result(FALSE, ErrIO)
  /\ Deref(secrets[LastCall.name]).OwnerReferences = <<>>

====
